---- MODULE Spec2Model ----
(***************************************************************************)
(* Model of the type compiler of src/checker/compiler.h: Section,          *)
(* Subroutine, Frame, Program and Compiler::handle.                        *)
(*                                                                         *)
(* Byte buffers (vector<unsigned char>) are sequences.  An opcode byte is  *)
(* written as the name of its OP enumerator (the numeric values live in    *)
(* instructions.h): the element Op(name); a parameter byte with value n is *)
(* the element Byte(n).  Vector indices of the code are 0-based, sequence  *)
(* positions here are 1-based, so the byte at code index i is ops[i + 1].  *)
(* A shared_ptr is the 1-based position of the object in its heap          *)
(* (prog.frames, prog.subroutines); 0 is nullptr.  Texts (string_view)     *)
(* are sequences of character codes.                                       *)
(*                                                                         *)
(* Five specifications: Spec compiles a source file statement by           *)
(* statement and builds the image; StorageSpec drives pushStorage and      *)
(* build(); ProgramSpec drives the Program's member functions one call at  *)
(* a time; SectionSpec drives the sections of one subroutine call by       *)
(* call; ExampleSpec compiles source files made of a few example           *)
(* statements.                                                             *)
(***************************************************************************)
EXTENDS Integers, Sequences, FiniteSets, TLC

VARIABLES
    prog,    \* the Program of compileSourceFile
    pc,      \* "compiling", "fatal" (an exception left compileSourceFile) or "built"
    nstmt,   \* the number of statements handled (of calls made, when the Program
             \* is driven call by call) so far
    image    \* the bytes build() returned, <<>> before

vars == <<prog, pc, nstmt, image>>

(* ------------------------------ bounds -------------------------------- *)

\* number of top-level statements of the source file
MaxStatements == 2
\* the uninitialised Section::isBlockTailCall of section k reads as
\* (k % UninitBits) \in u for a set u chosen per statement
UninitBits == 2
\* registerStorage is called with texts of at most MaxTextLen characters,
\* MaxTexts times
MaxTextLen == 2
MaxTexts == 3
\* number of calls made on a Program that is driven call by call
MaxCalls == 4
\* number of calls made on one subroutine when its sections are driven call by call
MaxSectionCalls == 6

(* ----------------------------- helpers -------------------------------- *)

Last(s) == s[Len(s)]

Front(s) == SubSeq(s, 1, Len(s) - 1)

\* the byte that holds the enumerator `name` of OP
Op(name) == [op |-> name, v |-> 0]

\* a byte that holds the number n
Byte(n) == [op |-> "", v |-> n]

\* the bytes of a text
RECURSIVE Bytes(_)
Bytes(text) == IF Len(text) = 0 THEN <<>> ELSE <<Byte(Head(text))>> \o Bytes(Tail(text))

\* little-endian bytes of v, n of them (two's complement for v < 0)
RECURSIVE LEBytes(_, _)
LEBytes(v, n) == IF n = 0 THEN <<>> ELSE <<Byte(v % 256)>> \o LEBytes(v \div 256, n - 1)

\* the value of the n little-endian bytes of b that start at code index i
RECURSIVE readUint(_, _, _)
readUint(b, i, n) == IF n = 0 THEN 0 ELSE b[i + 1].v + 256 * readUint(b, i + 1, n - 1)

RECURSIVE Zeros(_)
Zeros(n) == IF n <= 0 THEN <<>> ELSE <<Byte(0)>> \o Zeros(n - 1)

\* vm::write*: put bytes at code index offset, growing the buffer if needed
writeBytes(b, offset, bytes) ==
    SubSeq(b, 1, offset) \o Zeros(offset - Len(b)) \o bytes
        \o SubSeq(b, offset + Len(bytes) + 1, Len(b))

writeUint16(b, offset, v) == writeBytes(b, offset, LEBytes(v, 2))

writeUint32(b, offset, v) == writeBytes(b, offset, LEBytes(v, 4))

writeInt32(b, offset, v) == writeBytes(b, offset, LEBytes(v, 4))

writeUint64(b, offset, v) == writeBytes(b, offset, LEBytes(v, 8))

\* hash::runtime_hash: an opaque function of the text
RECURSIVE runtime_hash(_)
runtime_hash(s) ==
    IF Len(s) = 0 THEN 7 ELSE (31 * runtime_hash(Front(s)) + Last(s)) % 65521

(* ------------------------------ Section ------------------------------- *)

\* Section(start, up): isBlockTailCall has no initialiser, g is what it reads as
Section(start, up, g) ==
    [start |-> start, end |-> 0, lastOp |-> "Noop", ops |-> 0,
     isBlockTailCall |-> g, hasChild |-> FALSE, typeArgumentUsages |-> <<>>,
     next |-> -1, up |-> up]

Uninit(u, k) == (k % UninitBits) \in u

RECURSIVE usageUpdate(_, _, _, _)
usageUpdate(us, i, symbolIndex, ip) ==
    IF i > Len(us) THEN us \o <<[symbolIndex |-> symbolIndex, ip |-> ip]>>
    ELSE IF us[i].symbolIndex = symbolIndex
         THEN [us EXCEPT ![i].symbolIndex = ip]
         ELSE usageUpdate(us, i + 1, symbolIndex, ip)

SectionRegisterTypeArgumentUsage(sec, symbolIndex, ip) ==
    [sec EXCEPT !.typeArgumentUsages = usageUpdate(@, 1, symbolIndex, ip)]

(* ----------------------------- Subroutine ----------------------------- *)

NewSubroutine(identifier, g) ==
    [ops |-> <<>>, sourceMap |-> <<>>, identifier |-> identifier, index |-> 0,
     nameAddress |-> 0, type |-> "Type", sections |-> <<Section(0, -1, g)>>,
     activeSection |-> 0, isIgnoreNextSectionOP |-> FALSE]

SubIp(s) == Len(s.ops)

SubRegisterTypeArgumentUsage(s, symbolIndex) ==
    [s EXCEPT !.sections[s.activeSection + 1] =
                   SectionRegisterTypeArgumentUsage(@, symbolIndex, SubIp(s))]

SubIgnoreNextSectionOP(s) == [s EXCEPT !.isIgnoreNextSectionOP = TRUE]

SubBlockTailCall(s) == [s EXCEPT !.sections[s.activeSection + 1].isBlockTailCall = TRUE]

\* pushOp with a fault, the ignore flag left as it was: C25 fails with it
SubPushOpKeepsFlag(s, op) ==
    LET a == s.activeSection + 1
        s1 == [s EXCEPT !.ops = Append(@, Op(op))]
    IN IF ~s.isIgnoreNextSectionOP
       THEN [s1 EXCEPT !.sections[a].lastOp = op, !.sections[a].ops = @ + 1]
       ELSE s1

SubPushOp(s, op) ==
    LET a == s.activeSection + 1
        s1 == [s EXCEPT !.ops = Append(@, Op(op))]
        s2 == IF ~s.isIgnoreNextSectionOP
              THEN [s1 EXCEPT !.sections[a].lastOp = op, !.sections[a].ops = @ + 1]
              ELSE s1
    IN [s2 EXCEPT !.isIgnoreNextSectionOP = FALSE]

\* Subroutine::pushSection with a fault: the new section is appended but
\* activeSection stays where it was. C29 fails with it.
SubPushSectionKeepsActive(s, u) ==
    LET k == Len(s.sections)
        s1 == [s EXCEPT !.sections[s.activeSection + 1].hasChild = TRUE]
    IN [s1 EXCEPT !.sections = Append(@, Section(SubIp(s), s.activeSection, Uninit(u, k)))]

SubPushSection(s, u) ==
    LET k == Len(s.sections)
        s1 == [s EXCEPT !.sections[s.activeSection + 1].hasChild = TRUE]
    IN [s1 EXCEPT !.sections = Append(@, Section(SubIp(s), s.activeSection, Uninit(u, k))),
                  !.activeSection = k]

SubEnd(s) == [s EXCEPT !.sections[s.activeSection + 1].end = SubIp(s)]

\* popSection with a fault, the new section's up set to the parent instead of
\* the parent's up: C24 fails with it
SubPopSectionUpIsParent(s, u) ==
    LET n == Len(s.sections)
        s1 == [s EXCEPT !.sections[n].end = SubIp(s)]
        a == s1.sections[n].up
    IN IF a < 0 THEN s1
       ELSE IF s1.sections[a + 1].next = -1
            THEN LET nx == [Section(SubIp(s), -1, Uninit(u, n)) EXCEPT !.up = a]
                 IN [s1 EXCEPT !.sections = Append([@ EXCEPT ![a + 1].next = n], nx),
                               !.activeSection = n]
            ELSE [s1 EXCEPT !.activeSection = a]

\* sections[-1] is outside the vector: popSection is only modelled for a last
\* section that has a parent, which is what a matching pushSection gives
SubPopSection(s, u) ==
    LET n == Len(s.sections)
        s1 == [s EXCEPT !.sections[n].end = SubIp(s)]
        a == s1.sections[n].up
    IN IF a < 0 THEN s1
       ELSE IF s1.sections[a + 1].next = -1
            THEN LET nx == [Section(SubIp(s), -1, Uninit(u, n)) EXCEPT
                               !.up = s1.sections[a + 1].up]
                 IN [s1 EXCEPT !.sections = Append([@ EXCEPT ![a + 1].next = n], nx),
                               !.activeSection = n]
            ELSE [s1 EXCEPT !.activeSection = a]

RECURSIVE ended(_, _)
ended(s, i) ==
    LET section == s.sections[i + 1]
    IN IF section.next >= 0 THEN ended(s, section.next) ELSE section.ops = 0

\* tailUpwards with a fault, the isBlockTailCall test left out: C1 fails with it
RECURSIVE tailUpwardsUnblocked(_, _)
tailUpwardsUnblocked(s, c) ==
    LET current == s.sections[c + 1]
    IN IF ~ended(s, c) THEN FALSE
       ELSE IF current.up >= 0 THEN tailUpwardsUnblocked(s, current.up)
       ELSE TRUE

\* the while loop of optimise, from ancestor section c upwards
RECURSIVE tailUpwards(_, _)
tailUpwards(s, c) ==
    LET current == s.sections[c + 1]
    IN IF current.isBlockTailCall THEN FALSE
       ELSE IF ~ended(s, c) THEN FALSE
       ELSE IF current.up >= 0 THEN tailUpwards(s, current.up)
       ELSE TRUE

isTailSection(s, i) ==
    LET section == s.sections[i + 1]
    IN /\ ~section.hasChild
       /\ ~section.isBlockTailCall
       /\ ~(section.next >= 0 /\ ~ended(s, i))
       /\ (section.up >= 0 => tailUpwards(s, section.up))

\* ops[at] = op where at is inside the buffer (outside, the buffer keeps its bytes)
poke(ops, at, op) ==
    IF at >= 0 /\ at < Len(ops) THEN [ops EXCEPT ![at + 1] = Op(op)] ELSE ops

RECURSIVE restReuse(_, _, _)
restReuse(ops, us, i) ==
    IF i > Len(us) THEN ops
    ELSE LET ip == us[i].ip
         IN restReuse(IF ip < Len(ops) /\ ops[ip + 1] = Op("Rest")
                      THEN poke(ops, ip, "RestReuse") ELSE ops, us, i + 1)

optimiseSection(s, i) ==
    LET section == s.sections[i + 1]
    IN IF isTailSection(s, i)
       THEN LET o1 == IF section.lastOp = "Call"
                      THEN poke(s.ops, section.end - 1 - 4 - 2, "TailCall")
                      ELSE s.ops
            IN [s EXCEPT !.ops = restReuse(o1, section.typeArgumentUsages, 1)]
       ELSE s

RECURSIVE optimiseFrom(_, _)
optimiseFrom(s, i) ==
    IF i >= Len(s.sections) THEN s ELSE optimiseFrom(optimiseSection(s, i), i + 1)

optimise(s) == optimiseFrom(s, 0)

SubPushSourceMap(s, sourcePos, sourceEnd) ==
    [s EXCEPT !.sourceMap = Append(@, [bytecodePos |-> Len(s.ops),
                                       sourcePos |-> sourcePos, sourceEnd |-> sourceEnd])]

getFlags(s) == 0

(* ------------------------------- Frame -------------------------------- *)

NewFrame(previous, id) ==
    [conditional |-> FALSE, previous |-> previous, id |-> id, symbols |-> <<>>]

(* ------------------------------ Program ------------------------------- *)

NewProgram ==
    [ops |-> <<>>, sourceMap |-> <<>>, storage |-> <<>>, storageIndex |-> 0,
     frame |-> 1, frames |-> <<NewFrame(0, 0)>>,
     activeSubroutines |-> <<>>, subroutines |-> <<>>, fatal |-> ""]

\* an exception is propagating: no later statement of the compilation runs
Thrown(p) == p.fatal # ""

throw(p, what) == [p EXCEPT !.fatal = what]

HasActive(p) == Len(p.activeSubroutines) > 0

Active(p) == Last(p.activeSubroutines)

getOPs(p) == IF HasActive(p) THEN p.subroutines[Active(p)].ops ELSE p.ops

setOPs(p, ops) ==
    IF HasActive(p) THEN [p EXCEPT !.subroutines[Active(p)].ops = ops]
    ELSE [p EXCEPT !.ops = ops]

ip(p) == Len(getOPs(p))

pushOp(p, op) ==
    IF Thrown(p) THEN p
    ELSE IF HasActive(p) THEN [p EXCEPT !.subroutines[Active(p)] = SubPushOp(@, op)]
    ELSE [p EXCEPT !.ops = Append(@, Op(op))]

pushSourceMap(p, pos, end) ==
    IF Thrown(p) THEN p
    ELSE IF HasActive(p)
    THEN [p EXCEPT !.subroutines[Active(p)] = SubPushSourceMap(@, pos, end)]
    ELSE [p EXCEPT !.sourceMap = Append(@, [bytecodePos |-> Len(p.ops),
                                            sourcePos |-> pos, sourceEnd |-> end])]

\* pushOp(op, node) with a node
pushOpAt(p, op, pos, end) == pushOp(pushSourceMap(p, pos, end), op)

\* popFrameImplicit with a fault, FrameEnd emitted as popFrame does: C18 fails
\* with it
popFrameImplicitWithFrameEnd(p) ==
    IF Thrown(p) THEN p
    ELSE LET p1 == pushOp(p, "FrameEnd")
         IN IF p1.frames[p1.frame].previous # 0
            THEN [p1 EXCEPT !.frame = p1.frames[p1.frame].previous]
            ELSE p1

popFrameImplicit(p) ==
    IF Thrown(p) THEN p
    ELSE IF p.frames[p.frame].previous # 0
    THEN [p EXCEPT !.frame = p.frames[p.frame].previous]
    ELSE p

popFrame(p) == popFrameImplicit(pushOp(p, "FrameEnd"))

pushFrame(p, implicit) ==
    IF Thrown(p) THEN p
    ELSE LET p1 == IF ~implicit THEN pushOp(p, "Frame") ELSE p
             id == p1.frames[p1.frame].id
         IN [p1 EXCEPT !.frames = Append(@, NewFrame(p1.frame, id + 1)),
                       !.frame = Len(p1.frames) + 1]

setConditional(p) == IF Thrown(p) THEN p ELSE [p EXCEPT !.frames[p.frame].conditional = TRUE]

pushSubroutineNameLess(p, u) ==
    IF Thrown(p) THEN p
    ELSE LET routine == [NewSubroutine(<<>>, Uninit(u, 0)) EXCEPT
                            !.type = "Inline", !.index = Len(p.subroutines)]
             p1 == pushFrame(p, TRUE)
         IN [p1 EXCEPT !.subroutines = Append(@, routine),
                       !.activeSubroutines = Append(@, Len(p.subroutines) + 1)]

registerTypeArgumentUsage(p, symbolIndex) ==
    IF Thrown(p) \/ ~HasActive(p) THEN p
    ELSE [p EXCEPT !.subroutines[Active(p)] = SubRegisterTypeArgumentUsage(@, symbolIndex)]

\* position in symbols of the first symbol called name from position i on, 0 if none
RECURSIVE firstNamed(_, _, _)
firstNamed(symbols, name, i) ==
    IF i > Len(symbols) THEN 0
    ELSE IF symbols[i].name = name THEN i
    ELSE firstNamed(symbols, name, i + 1)

pushSubroutine(p, name) ==
    IF Thrown(p) THEN p
    ELSE LET k == firstNamed(p.frames[p.frame].symbols, name, 1)
         IN IF k = 0 THEN throw(p, "no symbol found")
            ELSE LET s == p.frames[p.frame].symbols[k]
                     p1 == pushFrame(p, TRUE)
                 IN [p1 EXCEPT !.activeSubroutines = Append(@, s.routine)]

popSubroutine(p) ==
    IF Thrown(p) THEN p
    ELSE IF ~HasActive(p) THEN throw(p, "No active subroutine found")
    ELSE LET p1 == popFrameImplicit(p)
             r == Active(p1)
         IN IF Len(p1.subroutines[r].ops) = 0 THEN throw(p1, "Routine is empty")
            ELSE LET s == optimise(SubEnd(p1.subroutines[r]))
                 IN [p1 EXCEPT !.subroutines[r] = [s EXCEPT !.ops = Append(@, Op("Return"))],
                               !.activeSubroutines = Front(@)]

\* lastNamed with a fault, the symbols searched from the oldest to the newest:
\* C12 fails with it
RECURSIVE lastNamedOldestFirst(_, _, _)
lastNamedOldestFirst(symbols, name, i) ==
    IF i = 0 THEN 0
    ELSE LET k == lastNamedOldestFirst(symbols, name, i - 1)
         IN IF k # 0 THEN k
            ELSE IF symbols[i].name = name THEN i ELSE 0

\* position in symbols of the last symbol called name at or before position i, 0 if none
RECURSIVE lastNamed(_, _, _)
lastNamed(symbols, name, i) ==
    IF i = 0 THEN 0
    ELSE IF symbols[i].name = name THEN i
    ELSE lastNamed(symbols, name, i - 1)

\* <<frame, position>> of the symbol found, <<0, 0>> for nullptr
RECURSIVE findSymbolFrom(_, _, _)
findSymbolFrom(p, current, identifier) ==
    LET k == lastNamed(p.frames[current].symbols, identifier, Len(p.frames[current].symbols))
    IN IF k # 0 THEN <<current, k>>
       ELSE IF p.frames[current].previous = 0 THEN <<0, 0>>
       ELSE findSymbolFrom(p, p.frames[current].previous, identifier)

findSymbol(p, identifier) == findSymbolFrom(p, p.frame, identifier)

SymbolAt(p, ref) == p.frames[ref[1]].symbols[ref[2]]

\* pushAddress with a fault, the offset ignored and the address appended at the
\* end of the buffer: C22 fails with it
pushAddressAppended(p, address, offset) ==
    IF Thrown(p) THEN p
    ELSE setOPs(p, writeUint32(getOPs(p), ip(p), address))

pushAddress(p, address, offset) ==
    IF Thrown(p) THEN p
    ELSE setOPs(p, writeUint32(getOPs(p), IF offset = 0 THEN ip(p) ELSE offset, address))

\* pushInt32Address with a fault, the value written one byte after the offset
\* given: C23 fails with it
pushInt32AddressShifted(p, address, offset) ==
    IF Thrown(p) THEN p
    ELSE setOPs(p, writeInt32(getOPs(p), IF offset = 0 THEN ip(p) ELSE offset + 1, address))

\* pushInt32Address with a fault, the offset ignored and the value appended at
\* the end of the buffer: C17 fails with it
pushInt32AddressAppended(p, address, offset) ==
    IF Thrown(p) THEN p
    ELSE setOPs(p, writeInt32(getOPs(p), ip(p), address))

pushInt32Address(p, address, offset) ==
    IF Thrown(p) THEN p
    ELSE setOPs(p, writeInt32(getOPs(p), IF offset = 0 THEN ip(p) ELSE offset, address))

pushUint16(p, v) ==
    IF Thrown(p) THEN p ELSE setOPs(p, writeUint16(getOPs(p), ip(p), v))

CannotFind == "CannotFind"

\* the low byte of (unsigned int) code, the enumerator `code` of ErrorCode
ErrorCodeByte(code) == [op |-> code, v |-> 0]

pushError(p, code, pos, end) ==
    IF Thrown(p) THEN p
    ELSE LET ops1 == Append(p.ops, Op("Error"))
         IN [p EXCEPT !.sourceMap = Append(@, [bytecodePos |-> 0, sourcePos |-> pos,
                                               sourceEnd |-> end]),
                      !.ops = ops1 \o <<ErrorCodeByte(code), Byte(0)>>]

\* frameHops with a fault, frameOffset never incremented: C9 fails with it
frameHopsNotCounted(p, current, target) == 0

\* hops from frame current to frame target; the walk falls off the root after the
\* last hop when target is not on the chain
RECURSIVE frameHops(_, _, _)
frameHops(p, current, target) ==
    IF current = 0 \/ current = target THEN 0
    ELSE 1 + frameHops(p, p.frames[current].previous, target)

pushSymbolAddress(p, ref) ==
    IF Thrown(p) THEN p
    ELSE LET symbol == SymbolAt(p, ref)
             frameOffset == frameHops(p, p.frame, symbol.frame)
             o1 == writeUint16(getOPs(p), ip(p), frameOffset)
         IN setOPs(p, writeUint16(o1, Len(o1), symbol.index))

ignoreNextSectionOP(p) ==
    IF Thrown(p) \/ ~HasActive(p) THEN p
    ELSE [p EXCEPT !.subroutines[Active(p)] = SubIgnoreNextSectionOP(@)]

pushSection(p, u) ==
    IF Thrown(p) \/ ~HasActive(p) THEN p
    ELSE [p EXCEPT !.subroutines[Active(p)] = SubPushSection(@, u)]

blockTailCall(p) ==
    IF Thrown(p) \/ ~HasActive(p) THEN p
    ELSE [p EXCEPT !.subroutines[Active(p)] = SubBlockTailCall(@)]

popSection(p, u) ==
    IF Thrown(p) \/ ~HasActive(p) THEN p
    ELSE [p EXCEPT !.subroutines[Active(p)] = SubPopSection(@, u)]

\* pushSymbol with a fault, a TypeVariable request counted on an existing
\* symbol like every other kind: C11 fails with it
pushSymbolCountsTypeVariable(p, name, type, pos, end) ==
    LET f == p.frame
        symbols == p.frames[f].symbols
        k == firstNamed(symbols, name, 1)
    IN IF k # 0
       THEN [p |-> [p EXCEPT !.frames[f].symbols[k].declarations = @ + 1], ref |-> <<f, k>>]
       ELSE LET symbol == [name |-> name, type |-> type, index |-> Len(symbols),
                           pos |-> pos, end |-> end, declarations |-> 1,
                           routine |-> 0, frame |-> f]
            IN [p |-> [p EXCEPT !.frames[f].symbols = Append(@, symbol)],
                ref |-> <<f, Len(symbols) + 1>>]

\* the program after the call and the symbol returned, as <<frame, position>>
pushSymbol(p, name, type, pos, end) ==
    LET f == p.frame
        symbols == p.frames[f].symbols
        k == IF type # "TypeVariable" THEN firstNamed(symbols, name, 1) ELSE 0
    IN IF k # 0
       THEN [p |-> [p EXCEPT !.frames[f].symbols[k].declarations = @ + 1], ref |-> <<f, k>>]
       ELSE LET symbol == [name |-> name, type |-> type, index |-> Len(symbols),
                           pos |-> pos, end |-> end, declarations |-> 1,
                           routine |-> 0, frame |-> f]
            IN [p |-> [p EXCEPT !.frames[f].symbols = Append(@, symbol)],
                ref |-> <<f, Len(symbols) + 1>>]

\* registerStorage with a fault, storageIndex advancing by the 8 + 2 bytes of
\* the entry's head only: C5 fails with it
registerStorageHeadOnly(p, s) ==
    LET storageIndex == IF p.storageIndex = 0 THEN 1 + 4 ELSE p.storageIndex
    IN [p |-> [p EXCEPT !.storage = Append(@, s),
                        !.storageIndex = storageIndex + 8 + 2],
        address |-> storageIndex]

\* the program after the call and the address returned
registerStorage(p, s) ==
    LET storageIndex == IF p.storageIndex = 0 THEN 1 + 4 ELSE p.storageIndex
    IN [p |-> [p EXCEPT !.storage = Append(@, s),
                        !.storageIndex = storageIndex + 8 + 2 + Len(s)],
        address |-> storageIndex]

\* pushSymbolForRoutine with a fault, routine->index taken after
\* subroutines.push_back(routine): C8 fails with it
pushSymbolForRoutineIndexAfterPush(p, name, type, pos, end, u) ==
    LET r1 == pushSymbol(p, name, type, pos, end)
        symbol == SymbolAt(r1.p, r1.ref)
    IN IF symbol.routine # 0 THEN r1
       ELSE LET r2 == registerStorage(r1.p, name)
                routine == [NewSubroutine(name, Uninit(u, 0)) EXCEPT
                               !.type = type, !.nameAddress = r2.address,
                               !.index = Len(r2.p.subroutines) + 1]
            IN [p |-> [r2.p EXCEPT
                          !.subroutines = Append(@, routine),
                          !.frames[r1.ref[1]].symbols[r1.ref[2]].routine =
                              Len(r2.p.subroutines) + 1],
                ref |-> r1.ref]

\* pushSymbolForRoutine with a fault, the early return for a symbol that
\* already owns a routine left out: C21 fails with it
pushSymbolForRoutineAlwaysCreates(p, name, type, pos, end, u) ==
    LET r1 == pushSymbol(p, name, type, pos, end)
        r2 == registerStorage(r1.p, name)
        routine == [NewSubroutine(name, Uninit(u, 0)) EXCEPT
                       !.type = type, !.nameAddress = r2.address,
                       !.index = Len(r2.p.subroutines)]
    IN [p |-> [r2.p EXCEPT
                  !.subroutines = Append(@, routine),
                  !.frames[r1.ref[1]].symbols[r1.ref[2]].routine =
                      Len(r2.p.subroutines) + 1],
        ref |-> r1.ref]

pushSymbolForRoutine(p, name, type, pos, end, u) ==
    LET r1 == pushSymbol(p, name, type, pos, end)
        symbol == SymbolAt(r1.p, r1.ref)
    IN IF symbol.routine # 0 THEN r1
       ELSE LET r2 == registerStorage(r1.p, name)
                routine == [NewSubroutine(name, Uninit(u, 0)) EXCEPT
                               !.type = type, !.nameAddress = r2.address,
                               !.index = Len(r2.p.subroutines)]
            IN [p |-> [r2.p EXCEPT
                          !.subroutines = Append(@, routine),
                          !.frames[r1.ref[1]].symbols[r1.ref[2]].routine =
                              Len(r2.p.subroutines) + 1],
                ref |-> r1.ref]

pushStorage(p, s) ==
    IF Thrown(p) THEN p
    ELSE LET r == registerStorage(p, s) IN pushAddress(r.p, r.address, 0)

pushStringLiteral(p, s, pos, end) == pushStorage(pushOpAt(p, "StringLiteral", pos, end), s)

(* ------------------------------ AST nodes ----------------------------- *)

\* A node: kind, its span pos/end, text (the literal's text or the escapedText
\* of the node's name), npos/nend (the span of the name identifier or of the
\* operator token), params (typeParameters, or the extends types of an
\* interface), kids (types, typeArguments, members, parameters, elements,
\* declarations, or <<checkType, extendsType, trueType, falseType>>, or
\* <<left, right>>), type and init (an optional child: <<>> or <<node>>) and
\* flags (which optional parts of the node are present).
Node(kind, pos, end, text, npos, nend, params, kids, type, init, flags) ==
    [kind |-> kind, pos |-> pos, end |-> end, text |-> text, npos |-> npos,
     nend |-> nend, params |-> params, kids |-> kids, type |-> type, init |-> init,
     flags |-> flags]

KeywordKinds ==
    {"AnyKeyword", "NullKeyword", "UndefinedKeyword", "NeverKeyword", "BooleanKeyword",
     "StringKeyword", "NumberKeyword", "TrueKeyword", "FalseKeyword"}

KeywordOp(kind) ==
    CASE kind = "AnyKeyword" -> "Any"
      [] kind = "NullKeyword" -> "Null"
      [] kind = "UndefinedKeyword" -> "Undefined"
      [] kind = "NeverKeyword" -> "Never"
      [] kind = "BooleanKeyword" -> "Boolean"
      [] kind = "StringKeyword" -> "String"
      [] kind = "NumberKeyword" -> "Number"
      [] kind = "TrueKeyword" -> "True"
      [] kind = "FalseKeyword" -> "False"

(* ------------------------------ Compiler ------------------------------ *)

RECURSIVE handle(_, _, _)
RECURSIVE handleList(_, _, _)
RECURSIVE handleTupleElements(_, _, _)

\* for (auto &&x: list) handle(x, program)
handleList(list, p, u) ==
    IF Len(list) = 0 \/ Thrown(p) THEN p
    ELSE handleList(Tail(list), handle(Head(list), p, u), u)

\* Call + the routine's index + the number of type arguments, of a reference
\* to the symbol at ref
handleCall(n, p, u, ref, pos, end) ==
    LET p1 == IF "typeArguments" \in n.flags THEN handleList(n.kids, p, u) ELSE p
        p2 == pushOpAt(p1, "Call", pos, end)
        symbol == SymbolAt(p2, ref)
    IN IF Thrown(p2) THEN p2
       ELSE IF symbol.routine = 0
       THEN throw(p2, "Reference is not a reference to a existing routine.")
       ELSE pushUint16(pushAddress(p2, p2.subroutines[symbol.routine].index, 0),
                       IF "typeArguments" \in n.flags THEN Len(n.kids) ELSE 0)

handleTypeReference(n, p, u) ==
    LET ref == findSymbol(p, n.text)
    IN IF ref[1] = 0
       THEN pushError(pushOpAt(p, "Never", n.npos, n.nend), CannotFind, n.npos, n.nend)
       ELSE LET symbol == SymbolAt(p, ref)
            IN IF symbol.type = "TypeArgument" \/ symbol.type = "TypeVariable"
               THEN LET p1 == pushSymbolAddress(pushOpAt(p, "Loads", n.npos, n.nend), ref)
                    IN IF symbol.type = "TypeArgument"
                       THEN registerTypeArgumentUsage(p1, symbol.index)
                       ELSE p1
               ELSE handleCall(n, p, u, ref, n.npos, n.nend)

handleIdentifier(n, p, u) ==
    LET ref == findSymbol(p, n.text)
    IN IF ref[1] = 0
       THEN pushError(pushOpAt(p, "Never", n.pos, n.end), CannotFind, n.pos, n.end)
       ELSE LET symbol == SymbolAt(p, ref)
            IN IF symbol.type = "TypeArgument" \/ symbol.type = "TypeVariable"
               THEN pushSymbolAddress(pushOpAt(p, "Loads", n.pos, n.end), ref)
               ELSE handleCall(n, p, u, ref, n.pos, n.end)

handleTypeAliasDeclaration(n, p, u) ==
    LET r == pushSymbolForRoutine(p, n.text, "Type", n.pos, n.end, u)
    IN IF SymbolAt(r.p, r.ref).declarations > 1 THEN r.p
       ELSE LET p1 == pushSubroutine(r.p, n.text)
                p2 == IF "typeParameters" \notin n.flags \/ Len(n.params) = 0
                      THEN blockTailCall(p1) ELSE p1
                p3 == IF "typeParameters" \in n.flags THEN handleList(n.params, p2, u)
                      ELSE p2
            IN popSubroutine(handle(n.kids[1], p3, u))

handleParameter(n, p, u) ==
    LET p1 == IF Len(n.type) > 0 THEN handle(n.type[1], p, u)
              ELSE pushOpAt(p, "Unknown", n.pos, n.end)
        p2 == pushStorage(pushOpAt(p1, "Parameter", n.pos, n.end), n.text)
        p3 == IF "questionToken" \in n.flags THEN pushOpAt(p2, "Optional", n.npos, n.nend)
              ELSE p2
    IN IF Len(n.init) > 0
       THEN pushOpAt(handle(n.init[1], p3, u), "Initializer", n.init[1].pos, n.init[1].end)
       ELSE p3

handleTypeParameter(n, p, u) ==
    LET r == pushSymbol(p, n.text, "TypeArgument", n.pos, n.end)
    IN IF Len(n.type) > 0
       THEN LET p1 == handle(n.type[1], pushSubroutineNameLess(r.p, u), u)
                p2 == popSubroutine(p1)
            IN IF Thrown(p2) THEN p2
               ELSE pushAddress(pushOpAt(p2, "TypeArgumentDefault", n.npos, n.nend),
                                p1.subroutines[Active(p1)].index, 0)
       ELSE pushOpAt(r.p, "TypeArgument", n.npos, n.nend)

\* the parameters, the return type (or Unknown) and Function
handleSignature(n, p, u) ==
    LET p1 == handleList(n.kids, p, u)
        p2 == IF Len(n.type) > 0 THEN handle(n.type[1], p1, u) ELSE pushOp(p1, "Unknown")
    IN pushOpAt(p2, "Function", n.pos, n.end)

handleFunctionDeclaration(n, p, u) ==
    LET r == pushSymbolForRoutine(p, n.text, "Function", n.npos, n.nend, u)
    IN IF SymbolAt(r.p, r.ref).declarations > 1 THEN r.p
       ELSE IF "typeParameters" \in n.flags
       THEN LET p1 == pushSubroutine(r.p, n.text)
                p2 == pushSubroutineNameLess(p1, u)
                subroutineIndex == Len(p1.subroutines)
                p3 == handleList(n.params, p2, u)
                p4 == popSubroutine(handleSignature(n, p3, u))
                p5 == pushAddress(pushOpAt(p4, "FunctionRef", n.pos, n.end),
                                  subroutineIndex, 0)
            IN popSubroutine(p5)
       ELSE popSubroutine(handleSignature(n, pushSubroutine(r.p, n.text), u))

handlePropertySignature(n, p, u) ==
    LET p1 == IF Len(n.type) > 0 THEN handle(n.type[1], p, u) ELSE pushOp(p, "Any")
        p2 == pushStringLiteral(p1, n.text, n.npos, n.nend)
        p3 == pushOpAt(p2, "PropertySignature", n.pos, n.end)
        p4 == IF "questionToken" \in n.flags THEN pushOp(p3, "Optional") ELSE p3
    IN IF "readonly" \in n.flags THEN pushOp(p4, "Readonly") ELSE p4

handleInterfaceDeclaration(n, p, u) ==
    LET p1 == pushFrame(p, FALSE)
        p2 == handleList(n.params, p1, u)
        p3 == handleList(n.kids, p2, u)
    IN popFrameImplicit(pushOpAt(p3, "ObjectLiteral", n.npos, n.nend))

handleExpressionWithTypeArguments(n, p, u) ==
    LET p1 == IF "typeArguments" \in n.flags THEN handleList(n.kids, p, u) ELSE p
        p2 == handle(n.type[1], p1, u)
    IN IF "typeArguments" \in n.flags
       THEN pushUint16(pushOpAt(p2, "Instantiate", n.pos, n.end), Len(n.kids))
       ELSE p2

handleConditionalType(n, p, u) ==
    LET checkType == n.kids[1]
        distributiveOverIdentifier == checkType.kind = "TypeReference"
        p1 == pushSection(p, u)
        \* if (distributiveOverIdentifier) { ... }
        d1 == handle(checkType, p1, u)
        d2 == pushFrame(blockTailCall(d1), TRUE)
        d3 == IF Thrown(d2) THEN d2
              ELSE pushSymbol(d2, checkType.text, "TypeVariable",
                              checkType.npos, checkType.nend).p
        d4 == pushOp(d3, "Distribute")
        distributeJumpIp == IF distributiveOverIdentifier THEN ip(d4) ELSE 0
        p2 == IF distributiveOverIdentifier THEN pushAddress(d4, 0, 0) ELSE p1
        p3 == setConditional(pushFrame(p2, FALSE))
        p4 == handle(n.kids[2], handle(checkType, p3, u), u)
        p5 == pushOp(pushOpAt(p4, "Extends", n.pos, n.end), "JumpCondition")
        relativeTo == ip(p5)
        falseJumpAddressIp == ip(p5)
        p6 == pushAddress(p5, 0, 0)
        p7 == popSection(handle(n.kids[3], pushSection(p6, u), u), u)
        p8 == pushOp(ignoreNextSectionOP(p7), "Jump")
        trueJumpAddressIp == ip(p8)
        p9 == pushAddress(p8, 0, 0)
        falseProgram == ip(p9) + 1
        p10 == popSection(handle(n.kids[4], pushSection(p9, u), u), u)
        falseEndIp == ip(p10)
        p11 == pushInt32Address(p10, falseProgram - relativeTo, falseJumpAddressIp)
        p12 == pushInt32Address(p11, falseEndIp - trueJumpAddressIp + 1, trueJumpAddressIp)
        p13 == IF distributiveOverIdentifier
               THEN LET q1 == pushAddress(p12, falseEndIp - distributeJumpIp + 6,
                                          distributeJumpIp)
                        q2 == pushOp(ignoreNextSectionOP(q1), "FrameReturnJump")
                        q3 == pushInt32Address(q2, -(ip(q2) - distributeJumpIp), 0)
                    IN popFrameImplicit(q3)
               ELSE popFrame(ignoreNextSectionOP(p12))
    IN popSection(p13, u)

handleTupleElements(list, p, u) ==
    IF Len(list) = 0 \/ Thrown(p) THEN p
    ELSE LET e == Head(list)
             p1 == IF e.kind = "NamedTupleMember"
                   THEN LET q1 == handle(e.type[1], p, u)
                            q2 == IF "dotDotDotToken" \in e.flags THEN pushOp(q1, "Rest")
                                  ELSE q1
                            q3 == pushOpAt(q2, "TupleMember", e.pos, e.end)
                        IN IF "questionToken" \in e.flags THEN pushOp(q3, "Optional")
                           ELSE q3
                   ELSE IF e.kind = "OptionalType"
                   THEN pushOp(pushOpAt(handle(e.type[1], p, u), "TupleMember",
                                        e.pos, e.end), "Optional")
                   ELSE pushOpAt(handle(e, p, u), "TupleMember", e.pos, e.end)
         IN handleTupleElements(Tail(list), p1, u)

handleTupleType(n, p, u) ==
    LET p1 == handleTupleElements(n.kids, pushFrame(p, FALSE), u)
    IN popFrameImplicit(pushOpAt(p1, "Tuple", n.pos, n.end))

handleBinaryExpression(n, p, u) ==
    IF "EqualsToken" \notin n.flags
    THEN throw(p, "BinaryExpression Operator token not handled")
    ELSE IF n.kids[1].kind # "Identifier"
    THEN throw(p, "BinaryExpression left only Identifier implemented")
    ELSE LET left == n.kids[1]
             ref == findSymbol(p, left.text)
         IN IF ref[1] = 0
            THEN pushError(pushOpAt(p, "Never", left.pos, left.end), CannotFind,
                           left.pos, left.end)
            ELSE IF SymbolAt(p, ref).routine = 0 THEN throw(p, "Symbol has no routine")
            ELSE LET p1 == pushOpAt(handle(n.kids[2], p, u), "Set", n.npos, n.nend)
                 IN IF Thrown(p1) THEN p1
                    ELSE pushAddress(p1, p1.subroutines[SymbolAt(p1, ref).routine].index, 0)

handleVariableDeclaration(n, p, u) ==
    LET r == pushSymbolForRoutine(p, n.text, "Variable", n.npos, n.nend, u)
        p1 == pushSubroutine(r.p, n.text)
        subroutineIndex == IF Thrown(p1) THEN 0 ELSE p1.subroutines[Active(p1)].index
    IN IF SymbolAt(r.p, r.ref).declarations > 1 THEN r.p
       ELSE IF Len(n.type) > 0
       THEN LET p2 == popSubroutine(handle(n.type[1], blockTailCall(p1), u))
            IN IF Len(n.init) > 0
               THEN LET p3 == pushOp(handle(n.init[1], p2, u), "Call")
                        p4 == pushUint16(pushAddress(p3, subroutineIndex, 0), 0)
                    IN pushOpAt(p4, "Assign", n.npos, n.nend)
               ELSE p2
       ELSE IF Len(n.init) > 0
       THEN LET p2 == handle(n.init[1], p1, u)
                p3 == popSubroutine(IF "const" \notin n.flags THEN pushOp(p2, "Widen")
                                    ELSE p2)
            IN IF "const" \notin n.flags
               THEN pushAddress(pushOp(handle(n.init[1], p3, u), "Set"), subroutineIndex, 0)
               ELSE p3
       ELSE popSubroutine(pushOp(p1, "Any"))

handle(n, p, u) ==
    IF Thrown(p) THEN p
    ELSE CASE n.kind \in KeywordKinds -> pushOpAt(p, KeywordOp(n.kind), n.pos, n.end)
           [] n.kind = "NumericLiteral" ->
                pushStorage(pushOpAt(p, "NumberLiteral", n.pos, n.end), n.text)
           [] n.kind = "StringLiteral" ->
                pushStorage(pushOpAt(p, "StringLiteral", n.pos, n.end), n.text)
           [] n.kind = "LiteralType" -> handle(n.kids[1], p, u)
           [] n.kind = "UnionType" ->
                popFrameImplicit(pushOpAt(handleList(n.kids, pushFrame(p, FALSE), u),
                                          "Union", n.pos, n.end))
           [] n.kind = "TypeReference" -> handleTypeReference(n, p, u)
           [] n.kind = "TypeAliasDeclaration" -> handleTypeAliasDeclaration(n, p, u)
           [] n.kind = "Parameter" -> handleParameter(n, p, u)
           [] n.kind = "TypeParameter" -> handleTypeParameter(n, p, u)
           [] n.kind = "FunctionDeclaration" -> handleFunctionDeclaration(n, p, u)
           [] n.kind = "Identifier" -> handleIdentifier(n, p, u)
           [] n.kind = "PropertySignature" -> handlePropertySignature(n, p, u)
           [] n.kind = "InterfaceDeclaration" -> handleInterfaceDeclaration(n, p, u)
           [] n.kind = "ExpressionWithTypeArguments" ->
                handleExpressionWithTypeArguments(n, p, u)
           [] n.kind = "ExpressionStatement" -> handle(n.kids[1], p, u)
           [] n.kind = "ConditionalType" -> handleConditionalType(n, p, u)
           [] n.kind = "ParenthesizedType" -> handle(n.kids[1], p, u)
           [] n.kind = "RestType" ->
                pushOpAt(handle(n.kids[1], p, u), "Rest", n.pos, n.end)
           [] n.kind = "ArrayType" ->
                pushOpAt(handle(n.kids[1], p, u), "Array", n.pos, n.end)
           [] n.kind = "TupleType" -> handleTupleType(n, p, u)
           [] n.kind = "BinaryExpression" -> handleBinaryExpression(n, p, u)
           [] n.kind = "VariableStatement" -> handleList(n.kids, p, u)
           [] n.kind = "VariableDeclaration" -> handleVariableDeclaration(n, p, u)
           [] OTHER -> p

(* --------------------------- Program::build --------------------------- *)

RECURSIVE storageSize(_)
storageSize(storage) ==
    IF Len(storage) = 0 THEN 0 ELSE 8 + 2 + Len(Head(storage)) + storageSize(Tail(storage))

RECURSIVE storageBytes(_)
storageBytes(storage) ==
    IF Len(storage) = 0 THEN <<>>
    ELSE LET item == Head(storage)
             b1 == writeUint64(<<>>, 0, runtime_hash(item))
             b2 == writeUint16(b1, Len(b1), Len(item))
         IN b2 \o Bytes(item) \o storageBytes(Tail(storage))

RECURSIVE sourceMapCount(_)
sourceMapCount(subroutines) ==
    IF Len(subroutines) = 0 THEN 0
    ELSE Len(Head(subroutines).sourceMap) + sourceMapCount(Tail(subroutines))

RECURSIVE sourceMapBytes(_, _)
sourceMapBytes(map, bytecodePosOffset) ==
    IF Len(map) = 0 THEN <<>>
    ELSE LET b1 == writeUint32(<<>>, 0, bytecodePosOffset + Head(map).bytecodePos)
             b2 == writeUint32(b1, Len(b1), Head(map).sourcePos)
             b3 == writeUint32(b2, Len(b2), Head(map).sourceEnd)
         IN b3 \o sourceMapBytes(Tail(map), bytecodePosOffset)

\* routinesSourceMapBytes with a fault, bytecodePosOffset not advanced past a
\* routine's ops: C7 fails with it
RECURSIVE routinesSourceMapBytesOneOffset(_, _)
routinesSourceMapBytesOneOffset(subroutines, bytecodePosOffset) ==
    IF Len(subroutines) = 0 THEN <<>>
    ELSE sourceMapBytes(Head(subroutines).sourceMap, bytecodePosOffset)
           \o routinesSourceMapBytesOneOffset(Tail(subroutines), bytecodePosOffset)

RECURSIVE routinesSourceMapBytes(_, _)
routinesSourceMapBytes(subroutines, bytecodePosOffset) ==
    IF Len(subroutines) = 0 THEN <<>>
    ELSE sourceMapBytes(Head(subroutines).sourceMap, bytecodePosOffset)
           \o routinesSourceMapBytes(Tail(subroutines),
                                     bytecodePosOffset + Len(Head(subroutines).ops))

RECURSIVE routinesSize(_)
routinesSize(subroutines) ==
    IF Len(subroutines) = 0 THEN 0
    ELSE Len(Head(subroutines).ops) + routinesSize(Tail(subroutines))

\* routinesMeta with a fault, address not advanced past a routine's ops: C6
\* fails with it
RECURSIVE routinesMetaOneAddress(_, _)
routinesMetaOneAddress(subroutines, address) ==
    IF Len(subroutines) = 0 THEN <<>>
    ELSE LET routine == Head(subroutines)
             b1 == writeUint32(<<Op("Subroutine")>>, 1, routine.nameAddress)
             b2 == writeUint32(b1, Len(b1), address)
         IN Append(b2, Byte(getFlags(routine)))
              \o routinesMetaOneAddress(Tail(subroutines), address)

RECURSIVE routinesMeta(_, _)
routinesMeta(subroutines, address) ==
    IF Len(subroutines) = 0 THEN <<>>
    ELSE LET routine == Head(subroutines)
             b1 == writeUint32(<<Op("Subroutine")>>, 1, routine.nameAddress)
             b2 == writeUint32(b1, Len(b1), address)
         IN Append(b2, Byte(getFlags(routine)))
              \o routinesMeta(Tail(subroutines), address + Len(routine.ops))

RECURSIVE routinesOps(_)
routinesOps(subroutines) ==
    IF Len(subroutines) = 0 THEN <<>>
    ELSE Head(subroutines).ops \o routinesOps(Tail(subroutines))

build(p) ==
    LET address0 == 5 + storageSize(p.storage)
        bin1 == writeUint32(writeUint32(<<Op("Jump")>>, 1, 0), 1, address0)
        bin2 == bin1 \o storageBytes(p.storage)
        sourceMapSize == sourceMapCount(p.subroutines) * (4 * 3)
                           + Len(p.sourceMap) * (4 * 3)
        bin3 == writeUint32(Append(bin2, Op("SourceMap")), Len(bin2) + 1, sourceMapSize)
        address1 == address0 + 1 + 4 + sourceMapSize
        bytecodePosOffset0 == address1 + Len(p.subroutines) * (1 + 4 + 4 + 1) + 1 + 4
        bin4 == bin3 \o routinesSourceMapBytes(p.subroutines, bytecodePosOffset0)
        bytecodePosOffset1 == bytecodePosOffset0 + routinesSize(p.subroutines)
        bin5 == bin4 \o sourceMapBytes(p.sourceMap, bytecodePosOffset1)
        address2 == address1 + 1 + 4 + Len(p.subroutines) * (1 + 4 + 4 + 1)
        bin6 == bin5 \o routinesMeta(p.subroutines, address2)
        address3 == address2 + routinesSize(p.subroutines)
        bin7 == writeUint32(Append(bin6, Op("Main")), Len(bin6) + 1, address3)
        bin8 == bin7 \o routinesOps(p.subroutines) \o p.ops
    IN Append(bin8, Op("Halt"))

(* ------------------------------- inputs -------------------------------- *)

\* identifiers of the source file: A B T x f I, and U, which nothing declares
nA == <<65>>
nB == <<66>>
nT == <<84>>
nU == <<85>>
nX == <<120>>
nF == <<102>>
nI == <<73>>

None == <<>>

Keyword(kind, pos) == Node(kind, pos, pos + 1, None, pos, pos + 1, <<>>, <<>>, <<>>, <<>>, {})

\* `name`
TypeRef(name, pos) ==
    Node("TypeReference", pos, pos + 1, name, pos, pos + 1, <<>>, <<>>, <<>>, <<>>, {})

\* `name<args>`
TypeRefArgs(name, args, pos, end) ==
    Node("TypeReference", pos, end, name, pos, pos + 1, <<>>, args, <<>>, <<>>,
         {"typeArguments"})

Ident(name, pos) ==
    Node("Identifier", pos, pos + 1, name, pos, pos + 1, <<>>, <<>>, <<>>, <<>>, {})

\* the literal type `text`
NumericLiteralType(text, pos) ==
    Node("LiteralType", pos, pos + 1, None, pos, pos + 1, <<>>,
         <<Node("NumericLiteral", pos, pos + 1, text, pos, pos + 1, <<>>, <<>>, <<>>, <<>>, {})>>,
         <<>>, <<>>, {})

StringLiteralNode(text, pos) ==
    Node("StringLiteral", pos, pos + 2, text, pos, pos + 2, <<>>, <<>>, <<>>, <<>>, {})

\* `check extends ext ? t : f`
Conditional(check, ext, t, f, pos, end) ==
    Node("ConditionalType", pos, end, None, pos, pos, <<>>, <<check, ext, t, f>>, <<>>, <<>>, {})

UnionOf(types, pos, end) ==
    Node("UnionType", pos, end, None, pos, pos, <<>>, types, <<>>, <<>>, {})

TupleOf(elements, pos, end) ==
    Node("TupleType", pos, end, None, pos, pos, <<>>, elements, <<>>, <<>>, {})

\* `...type`
RestOf(type, pos, end) ==
    Node("RestType", pos, end, None, pos, pos, <<>>, <<type>>, <<>>, <<>>, {})

\* `T`, or `T = default`
TypeParam(name, default, pos) ==
    Node("TypeParameter", pos, pos + 1, name, pos, pos + 1, <<>>, <<>>, default, <<>>, {})

\* `type name = type;`
Alias(name, type) ==
    Node("TypeAliasDeclaration", 0, type.end + 1, name, 5, 6, <<>>, <<type>>, <<>>, <<>>, {})

\* `type name<typeParameters> = type;`
AliasOf(name, typeParameters, type) ==
    Node("TypeAliasDeclaration", 0, type.end + 1, name, 5, 6, typeParameters, <<type>>,
         <<>>, <<>>, {"typeParameters"})

\* `var name: type = init;`, each of type and init <<>> or <<node>>
VarStatement(name, type, init, flags) ==
    Node("VariableStatement", 0, 20, None, 0, 0, <<>>,
         <<Node("VariableDeclaration", 4, 19, name, 4, 5, <<>>, <<>>, type, init, flags)>>,
         <<>>, <<>>, {})

Param(name, type, pos) ==
    Node("Parameter", pos, pos + 4, name, pos, pos + 1, <<>>, <<>>, type, <<>>, {})

\* the bodies of the aliases: A, T, A<T>, string extends number ? A : B,
\* T extends string ? A : B, A<string extends number ? string : never>,
\* string | 1, [string, ...T], U
Bodies ==
    { TypeRef(nA, 10),
      TypeRef(nT, 10),
      TypeRefArgs(nA, <<TypeRef(nT, 12)>>, 10, 14),
      Conditional(Keyword("StringKeyword", 10), Keyword("NumberKeyword", 12),
                  TypeRef(nA, 14), TypeRef(nB, 16), 10, 17),
      Conditional(TypeRef(nT, 10), Keyword("StringKeyword", 12),
                  TypeRef(nA, 14), TypeRef(nB, 16), 10, 17),
      TypeRefArgs(nA, <<Conditional(Keyword("StringKeyword", 12),
                                    Keyword("NumberKeyword", 14),
                                    Keyword("StringKeyword", 16),
                                    Keyword("NeverKeyword", 18), 12, 19)>>, 10, 20),
      UnionOf(<<Keyword("StringKeyword", 10), NumericLiteralType(<<49>>, 12)>>, 10, 13),
      TupleOf(<<Keyword("StringKeyword", 11), RestOf(TypeRef(nT, 14), 13, 15)>>, 10, 16),
      TypeRef(nU, 10) }

TypeAliasDeclarations ==
    { Alias(nA, Keyword("StringKeyword", 10)),
      AliasOf(nA, <<TypeParam(nT, <<>>, 7)>>, TypeRef(nT, 10)),
      Alias(nT, Keyword("StringKeyword", 10)) }
    \cup { Alias(nB, b) : b \in Bodies }
    \cup { AliasOf(nB, <<TypeParam(nT, <<>>, 7)>>, b) : b \in Bodies }
    \cup { AliasOf(nB, <<TypeParam(nT, <<Keyword("StringKeyword", 9)>>, 7)>>,
                   TypeRef(nT, 12)) }

\* var x: A;  var x: A<string extends number ? string : never> = "hi";
\* const x = "hi";  let x = "hi";  var x;
VariableStatements ==
    { VarStatement(nX, <<TypeRef(nA, 7)>>, <<>>, {}),
      VarStatement(nX, <<TypeRefArgs(nA, <<Conditional(Keyword("StringKeyword", 9),
                                                       Keyword("NumberKeyword", 11),
                                                       Keyword("StringKeyword", 13),
                                                       Keyword("NeverKeyword", 15), 9, 16)>>,
                                     7, 17)>>,
                   <<StringLiteralNode(<<104, 105>>, 18)>>, {}),
      VarStatement(nX, <<>>, <<StringLiteralNode(<<104, 105>>, 10)>>, {"const"}),
      VarStatement(nX, <<>>, <<StringLiteralNode(<<104, 105>>, 10)>>, {}),
      VarStatement(nX, <<>>, <<>>, {}) }

\* function f<T>(x: T): A {}  and  function f(x) {}
FunctionDeclarations ==
    { Node("FunctionDeclaration", 0, 30, nF, 9, 10, <<TypeParam(nT, <<>>, 11)>>,
           <<Param(nX, <<TypeRef(nT, 17)>>, 14)>>, <<TypeRef(nA, 21)>>, <<>>,
           {"typeParameters"}),
      Node("FunctionDeclaration", 0, 20, nF, 9, 10, <<>>,
           <<Param(nX, <<>>, 11)>>, <<>>, <<>>, {}) }

\* interface I extends A { x: string }
InterfaceDeclarations ==
    { Node("InterfaceDeclaration", 0, 30, nI, 10, 11,
           <<Node("ExpressionWithTypeArguments", 20, 21, None, 20, 21, <<>>, <<>>,
                  <<Ident(nA, 20)>>, <<>>, {})>>,
           <<Node("PropertySignature", 24, 28, nX, 24, 25, <<>>, <<>>,
                  <<Keyword("StringKeyword", 27)>>, <<>>, {})>>,
           <<>>, <<>>, {}) }

\* x = "hi";  U;  x + U;
ExpressionStatements ==
    { Node("ExpressionStatement", 0, 10, None, 0, 0, <<>>,
           <<Node("BinaryExpression", 0, 9, None, 2, 3, <<>>,
                  <<Ident(nX, 0), StringLiteralNode(<<104, 105>>, 4)>>, <<>>, <<>>,
                  {"EqualsToken"})>>, <<>>, <<>>, {}),
      Node("ExpressionStatement", 0, 2, None, 0, 0, <<>>, <<Ident(nU, 0)>>,
           <<>>, <<>>, {}),
      Node("ExpressionStatement", 0, 10, None, 0, 0, <<>>,
           <<Node("BinaryExpression", 0, 9, None, 2, 3, <<>>,
                  <<Ident(nX, 0), Ident(nU, 4)>>, <<>>, <<>>, {"PlusToken"})>>,
           <<>>, <<>>, {}) }

\* what the uninitialised isBlockTailCall flags of one statement's sections read as
UninitPatterns == SUBSET (0..(UninitBits - 1))

(* --------------------------- the compilation --------------------------- *)

Init ==
    /\ prog = NewProgram
    /\ pc = "compiling"
    /\ nstmt = 0
    /\ image = <<>>

\* the next statement of SourceFile::statements is n
HandleStatement(n, u) ==
    /\ pc = "compiling"
    /\ nstmt < MaxStatements
    /\ prog' = handle(n, prog, u)
    /\ pc' = IF Thrown(prog') THEN "fatal" ELSE "compiling"
    /\ nstmt' = nstmt + 1
    /\ image' = image

HandleTypeAliasDeclaration == \E n \in TypeAliasDeclarations, u \in UninitPatterns : HandleStatement(n, u)

HandleVariableStatement == \E n \in VariableStatements, u \in UninitPatterns : HandleStatement(n, u)

HandleFunctionDeclaration == \E n \in FunctionDeclarations, u \in UninitPatterns : HandleStatement(n, u)

HandleInterfaceDeclaration == \E n \in InterfaceDeclarations, u \in UninitPatterns : HandleStatement(n, u)

HandleExpressionStatement == \E n \in ExpressionStatements, u \in UninitPatterns : HandleStatement(n, u)

\* compileSourceFile returned the program and build() is called on it
Build ==
    /\ pc = "compiling"
    /\ image' = build(prog)
    /\ pc' = "built"
    /\ UNCHANGED <<prog, nstmt>>

Next ==
    \/ HandleTypeAliasDeclaration
    \/ HandleVariableStatement
    \/ HandleFunctionDeclaration
    \/ HandleInterfaceDeclaration
    \/ HandleExpressionStatement
    \/ Build

Spec == Init /\ [][Next]_vars

(* ------------------- the storage, driven call by call ------------------ *)

\* the texts handed to registerStorage
Texts == UNION {[1..n -> {97, 98}] : n \in 0..MaxTextLen}

\* pushStorage(s) on a program without an active subroutine
PushStorage ==
    \E s \in Texts :
        /\ pc = "compiling"
        /\ Len(prog.storage) < MaxTexts
        /\ prog' = pushStorage(prog, s)
        /\ UNCHANGED <<pc, nstmt, image>>

StorageNext ==
    \/ PushStorage
    \/ Build

StorageSpec == Init /\ [][StorageNext]_vars

(* ------------------- the Program, driven call by call ------------------ *)

\* what the uninitialised isBlockTailCall of a new routine's section 0 reads as
UninitRoot == {{}, {0}}

\* `type I<T> = T;`
IdAlias == AliasOf(nI, <<TypeParam(nT, <<>>, 7)>>, TypeRef(nT, 10))

\* one call on the Program, p its result
Invoke(p) ==
    /\ pc = "compiling"
    /\ nstmt < MaxCalls
    /\ prog' = p
    /\ pc' = IF Thrown(p) THEN "fatal" ELSE "compiling"
    /\ nstmt' = nstmt + 1
    /\ image' = image

PushFrame == \E implicit \in BOOLEAN : Invoke(pushFrame(prog, implicit))

PopFrameImplicit == Invoke(popFrameImplicit(prog))

PushSymbol ==
    \E name \in {nT, nU}, type \in {"TypeArgument", "TypeVariable"} :
        Invoke(pushSymbol(prog, name, type, 0, 1).p)

PushSymbolForRoutine ==
    \E name \in {nA, nT}, u \in UninitRoot :
        Invoke(pushSymbolForRoutine(prog, name, "Type", 0, 1, u).p)

PushSubroutineNameLess == \E u \in UninitRoot : Invoke(pushSubroutineNameLess(prog, u))

\* pushSubroutine(name) where the symbol found, if any, has a routine (every
\* caller in handle() runs pushSymbolForRoutine on the name first)
PushSubroutine ==
    \E name \in {nA, nT} :
        LET k == firstNamed(prog.frames[prog.frame].symbols, name, 1)
        IN /\ (k # 0 => prog.frames[prog.frame].symbols[k].routine # 0)
           /\ Invoke(pushSubroutine(prog, name))

PopSubroutine == Invoke(popSubroutine(prog))

\* the TypeReference case of handle() on a reference without type arguments
TypeReference ==
    \E name \in {nA, nT, nU} : Invoke(handle(TypeRef(name, 0), prog, {}))

ProgramNext ==
    \/ PushFrame
    \/ PopFrameImplicit
    \/ PushSymbol
    \/ PushSymbolForRoutine
    \/ PushSubroutineNameLess
    \/ PushSubroutine
    \/ PopSubroutine
    \/ TypeReference

ProgramSpec == Init /\ [][ProgramNext]_vars

(* ------------------ the sections, driven call by call ------------------ *)

\* one call on the Program while the sections are driven, p its result
SectionCall(p) ==
    /\ pc = "compiling"
    /\ nstmt < MaxSectionCalls
    /\ prog' = p
    /\ pc' = IF Thrown(p) THEN "fatal" ELSE "compiling"
    /\ nstmt' = nstmt + 1
    /\ image' = image

\* the section of subroutine s that popSection ends: sections.back()
Back(s) == s.sections[Len(s.sections)]

OpenRoutine ==
    \E u \in UninitRoot :
        /\ ~HasActive(prog)
        /\ SectionCall(pushSubroutineNameLess(prog, u))

EmitOp ==
    \E op \in {"String", "Jump"} :
        /\ HasActive(prog)
        /\ SectionCall(pushOp(prog, op))

IgnoreNextSectionOP ==
    /\ HasActive(prog)
    /\ SectionCall(ignoreNextSectionOP(prog))

PushSection ==
    \E u \in UninitPatterns :
        /\ HasActive(prog)
        /\ SectionCall(pushSection(prog, u))

\* popSection after a pushSection it matches: the last section has a parent
PopSection ==
    \E u \in UninitPatterns :
        /\ HasActive(prog)
        /\ Back(prog.subroutines[Active(prog)]).up >= 0
        /\ SectionCall(popSection(prog, u))

CloseRoutine ==
    /\ HasActive(prog)
    /\ SectionCall(popSubroutine(prog))

SectionNext ==
    \/ OpenRoutine
    \/ EmitOp
    \/ IgnoreNextSectionOP
    \/ PushSection
    \/ PopSection
    \/ CloseRoutine

SectionSpec == Init /\ [][SectionNext]_vars

(* ------------------------- the example inputs -------------------------- *)

\* `type T = string | number;`
UnionAlias ==
    Alias(nT, UnionOf(<<Keyword("StringKeyword", 9), Keyword("NumberKeyword", 18)>>, 9, 24))

\* `type T = [number] extends [string] ? 1 : 2;`
TupleConditionalAlias ==
    Alias(nT, Conditional(TupleOf(<<Keyword("NumberKeyword", 10)>>, 9, 17),
                          TupleOf(<<Keyword("StringKeyword", 27)>>, 26, 34),
                          NumericLiteralType(<<49>>, 37), NumericLiteralType(<<50>>, 41),
                          9, 42))

\* `type B<T> = T extends string ? T : never;`
DistributiveAlias ==
    AliasOf(nB, <<TypeParam(nT, <<>>, 7)>>,
            Conditional(TypeRef(nT, 12), Keyword("StringKeyword", 22),
                        TypeRef(nT, 31), Keyword("NeverKeyword", 35), 12, 40))

\* `type B = A extends string ? 1 : 2;`
AliasCheckedAlias ==
    Alias(nB, Conditional(TypeRef(nA, 9), Keyword("StringKeyword", 19),
                          NumericLiteralType(<<49>>, 28), NumericLiteralType(<<50>>, 32),
                          9, 33))

\* `type B<T> = A<T> extends string ? 1 : 2;`
InstantiationCheckedAlias ==
    AliasOf(nB, <<TypeParam(nT, <<>>, 7)>>,
            Conditional(TypeRefArgs(nA, <<TypeRef(nT, 14)>>, 12, 16),
                        Keyword("StringKeyword", 25),
                        NumericLiteralType(<<49>>, 34), NumericLiteralType(<<50>>, 38),
                        12, 39))

\* `type B<T> = [...T, ...T];`
DoubleRestAlias ==
    AliasOf(nB, <<TypeParam(nT, <<>>, 7)>>,
            TupleOf(<<RestOf(TypeRef(nT, 16), 13, 17), RestOf(TypeRef(nT, 22), 19, 23)>>,
                    12, 24))

\* the aliases of the examples: a union, a conditional type over tuples, the
\* identity, a conditional type over a type parameter, a tuple that spreads a
\* type parameter twice
ExampleAliases ==
    {UnionAlias, TupleConditionalAlias, IdAlias, DistributiveAlias, DoubleRestAlias}

\* `type A = string;` and the conditional types whose check type is a
\* reference to A
CheckedAliases ==
    {Alias(nA, Keyword("StringKeyword", 10)), AliasCheckedAlias, InstantiationCheckedAlias}

\* `interface I extends A { x: string }` and `type A = I;`
InterfaceAndReference == InterfaceDeclarations \cup {Alias(nA, TypeRef(nI, 10))}

HandleExampleAlias == \E n \in ExampleAliases, u \in UninitPatterns : HandleStatement(n, u)

HandleCheckedAlias == \E n \in CheckedAliases, u \in UninitPatterns : HandleStatement(n, u)

HandleInterfaceAndReference ==
    \E n \in InterfaceAndReference, u \in UninitPatterns : HandleStatement(n, u)

ExampleNext ==
    \/ HandleExampleAlias
    \/ HandleCheckedAlias
    \/ HandleInterfaceAndReference
    \/ Build

ExampleSpec == Init /\ [][ExampleNext]_vars

(* ============================== claims ================================= *)

Routines == 1..Len(prog.subroutines)

Positions(b) == 1..Len(b)

\* popSubroutine has run on routine r: optimise() ran and Return was appended
Optimised(r) ==
    LET s == prog.subroutines[r]
    IN /\ \A a \in Positions(prog.activeSubroutines) : prog.activeSubroutines[a] # r
       /\ Len(s.ops) > 0
       /\ Last(s.ops) = Op("Return")

HasOp(b, name) == \E q \in Positions(b) : b[q] = Op(name)

SectionIds(s) == 0..(Len(s.sections) - 1)

\* the last section of the chain of next siblings that starts at section i
RECURSIVE ChainEnd(_, _)
ChainEnd(s, i) == IF s.sections[i + 1].next >= 0 THEN ChainEnd(s, s.sections[i + 1].next) ELSE i

\* "ended": the chain of next siblings stops at a section that counted no op
Ended(s, i) == s.sections[ChainEnd(s, i) + 1].ops = 0

\* the sections reached from section i through up, i excluded
RECURSIVE Ancestors(_, _)
Ancestors(s, i) ==
    LET up == s.sections[i + 1].up
    IN IF up >= 0 THEN {up} \cup Ancestors(s, up) ELSE {}

\* the tail sections as the specification defines them
TailSection(s, i) ==
    LET S == s.sections[i + 1]
    IN /\ ~S.hasChild
       /\ ~S.isBlockTailCall
       /\ (S.next < 0 \/ Ended(s, i))
       /\ \A a \in Ancestors(s, i) : Ended(s, a) /\ ~s.sections[a + 1].isBlockTailCall

\* C1: after optimise() the trailing Call of every tail section is a TailCall, at
\* S.end - 7, and every TailCall of the buffer is the trailing Call of a tail section
C1_TailCallExactlyInTailSections ==
    \A r \in Routines :
        Optimised(r) =>
            LET s == prog.subroutines[r]
            IN /\ \A i \in SectionIds(s) :
                    (TailSection(s, i) /\ s.sections[i + 1].lastOp = "Call") =>
                        /\ s.sections[i + 1].end - 7 >= 0
                        /\ s.ops[s.sections[i + 1].end - 7 + 1] = Op("TailCall")
               /\ \A q \in Positions(s.ops) :
                    s.ops[q] = Op("TailCall") =>
                        \E i \in SectionIds(s) :
                            /\ TailSection(s, i)
                            /\ s.sections[i + 1].lastOp = "Call"
                            /\ s.sections[i + 1].end - 7 = q - 1

\* C1 witness: one optimised routine holds a rewritten tail Call and a Call that
\* ends a section which is no tail section and is still a Call
C1_Witness ==
    \E r \in Routines :
        /\ Optimised(r)
        /\ HasOp(prog.subroutines[r].ops, "TailCall")
        /\ \E i \in SectionIds(prog.subroutines[r]) :
              LET s == prog.subroutines[r]
                  S == s.sections[i + 1]
              IN /\ ~TailSection(s, i)
                 /\ S.lastOp = "Call"
                 /\ S.end >= 7
                 /\ s.ops[S.end - 7 + 1] = Op("Call")

\* the routine of a type alias declared without type parameters
AliasWithoutTypeParameters(r) ==
    LET s == prog.subroutines[r]
    IN /\ s.type = "Type"
       /\ ~HasOp(s.ops, "TypeArgument")
       /\ ~HasOp(s.ops, "TypeArgumentDefault")

\* the routine of a variable on which blockTailCall() ran (its type annotation)
AnnotatedVariable(r) ==
    LET s == prog.subroutines[r]
    IN s.type = "Variable" /\ s.sections[1].isBlockTailCall

\* C2 (as claimed): the routine of an alias without type parameters and of a
\* variable's type annotation holds no TailCall after popSubroutine
C2_NoTailCallInBlockedRoutine ==
    \A r \in Routines :
        (Optimised(r) /\ (AliasWithoutTypeParameters(r) \/ AnnotatedVariable(r))) =>
            ~HasOp(prog.subroutines[r].ops, "TailCall")

\* C3 (as claimed): no Call between Distribute and FrameReturnJump is rewritten
\* to TailCall
C3_NoTailCallInsideDistribute ==
    \A r \in Routines :
        Optimised(r) =>
            LET ops == prog.subroutines[r].ops
            IN \A i, j, k \in Positions(ops) :
                  ~(/\ i < j /\ j < k
                    /\ ops[i] = Op("Distribute")
                    /\ ops[j] = Op("TailCall")
                    /\ ops[k] = Op("FrameReturnJump"))

\* C4 (as claimed): when compileSourceFile returned, every routine of
\* `subroutines` is non-empty and ends with Return
C4_EveryRoutineEndsWithReturn ==
    (pc # "fatal") =>
        \A r \in Routines :
            /\ Len(prog.subroutines[r].ops) > 0
            /\ Last(prog.subroutines[r].ops) = Op("Return")

\* the size of the image entries of the first k texts of the storage
RECURSIVE EntriesSize(_, _)
EntriesSize(storage, k) ==
    IF k = 0 THEN 0 ELSE EntriesSize(storage, k - 1) + 8 + 2 + Len(storage[k])

\* the address pushStorage wrote for the k-th registered text
ReturnedAddress(k) == readUint(prog.ops, 4 * (k - 1), 4)

\* C5: the address returned for the k-th text is 5 plus the sizes of the entries
\* registered before it, in every later state, and the image holds the entry
\* (hash, length, text) of that text at that offset
C5_StorageAddresses ==
    /\ Len(prog.ops) = 4 * Len(prog.storage)
    /\ \A k \in Positions(prog.storage) :
          ReturnedAddress(k) = 5 + EntriesSize(prog.storage, k - 1)
    /\ (pc = "built") =>
          \A k \in Positions(prog.storage) :
              LET a == ReturnedAddress(k)
                  text == prog.storage[k]
              IN /\ a + 8 + 2 + Len(text) <= Len(image)
                 /\ readUint(image, a, 8) = runtime_hash(text)
                 /\ readUint(image, a + 8, 2) = Len(text)
                 /\ SubSeq(image, a + 8 + 2 + 1, a + 8 + 2 + Len(text)) = Bytes(text)

\* C5 witness: an image with three entries, the first two of different non-zero
\* lengths
C5_Witness ==
    /\ pc = "built"
    /\ Len(prog.storage) >= 3
    /\ Len(prog.storage[1]) > 0
    /\ Len(prog.storage[2]) > 0
    /\ Len(prog.storage[1]) # Len(prog.storage[2])

(* the image, read the way its reader walks it *)

\* the u32 after the leading Jump
ImgStorageEnd == readUint(image, 1, 4)

\* the u32 after the SourceMap opcode
ImgSourceMapSize == readUint(image, ImgStorageEnd + 1, 4)

\* offset of the first entry of the Subroutine table
ImgTable == ImgStorageEnd + 1 + 4 + ImgSourceMapSize

\* code_address of the table entry of routine i (1-based)
ImgCodeAddress(i) == readUint(image, ImgTable + 10 * (i - 1) + 1 + 4, 4)

\* offset of the Main opcode
ImgMainPos == ImgTable + 10 * Len(prog.subroutines)

ImgMainAddress == readUint(image, ImgMainPos + 1, 4)

\* the number of opcode bytes of the first k routines
RECURSIVE OpsBefore(_)
OpsBefore(k) == IF k = 0 THEN 0 ELSE OpsBefore(k - 1) + Len(prog.subroutines[k].ops)

\* where the opcode bytes of routine i begin: behind Main's address and the
\* opcode bytes of the routines before it
CodeStart(i) == ImgMainPos + 1 + 4 + OpsBefore(i - 1)

\* the n bytes of the image from offset a on
ImageAt(a, n) == SubSeq(image, a + 1, a + n)

\* C6: the leading Jump targets the SourceMap opcode, every table entry's
\* code_address is the offset of its routine's opcode bytes, and the address
\* after Main is the offset of main's opcode bytes
C6_ImageAddresses ==
    (pc = "built") =>
        LET n == Len(prog.subroutines)
        IN /\ image[1] = Op("Jump")
           /\ ImgStorageEnd = 5 + EntriesSize(prog.storage, Len(prog.storage))
           /\ image[ImgStorageEnd + 1] = Op("SourceMap")
           /\ \A i \in Routines :
                 /\ image[ImgTable + 10 * (i - 1) + 1] = Op("Subroutine")
                 /\ ImgCodeAddress(i) = CodeStart(i)
                 /\ ImageAt(ImgCodeAddress(i), Len(prog.subroutines[i].ops))
                        = prog.subroutines[i].ops
           /\ image[ImgMainPos + 1] = Op("Main")
           /\ ImgMainAddress = CodeStart(n + 1)
           /\ ImageAt(ImgMainAddress, Len(prog.ops)) = prog.ops
           /\ Len(image) = ImgMainAddress + Len(prog.ops) + 1
           /\ Last(image) = Op("Halt")

\* C6 witness: an image with storage entries, source-map entries, two non-empty
\* routines and a non-empty main
C6_Witness ==
    /\ pc = "built"
    /\ Len(prog.storage) >= 2
    /\ ImgSourceMapSize > 0
    /\ Len(prog.subroutines) >= 2
    /\ \A i \in Routines : Len(prog.subroutines[i].ops) > 0
    /\ Len(prog.ops) > 0

\* the number of source-map entries of the first k routines
RECURSIVE EntriesBefore(_)
EntriesBefore(k) ==
    IF k = 0 THEN 0 ELSE EntriesBefore(k - 1) + Len(prog.subroutines[k].sourceMap)

\* absolute_bytecode_pos of the e-th entry (1-based) of the image's source map
ImgAbsolutePos(e) == readUint(image, ImgStorageEnd + 1 + 4 + 12 * (e - 1), 4)

\* C7: absolute_bytecode_pos of every entry is the image offset of the segment
\* whose source map holds the entry plus the entry's bytecodePos, and it lies
\* inside that segment's opcode bytes
C7_SourceMapPositions ==
    (pc = "built") =>
        /\ ImgSourceMapSize
              = 12 * (EntriesBefore(Len(prog.subroutines)) + Len(prog.sourceMap))
        /\ \A r \in Routines :
              \A m \in Positions(prog.subroutines[r].sourceMap) :
                  LET abs == ImgAbsolutePos(EntriesBefore(r - 1) + m)
                  IN /\ abs = ImgCodeAddress(r) + prog.subroutines[r].sourceMap[m].bytecodePos
                     /\ abs >= ImgCodeAddress(r)
                     /\ abs < ImgCodeAddress(r) + Len(prog.subroutines[r].ops)
        /\ \A m \in Positions(prog.sourceMap) :
              LET abs == ImgAbsolutePos(EntriesBefore(Len(prog.subroutines)) + m)
              IN /\ abs = ImgMainAddress + prog.sourceMap[m].bytecodePos
                 /\ abs >= ImgMainAddress
                 /\ abs < ImgMainAddress + Len(prog.ops)

\* C7 witness: an image whose second routine and whose main recorded entries,
\* one of them at a local ip > 0
C7_Witness ==
    /\ pc = "built"
    /\ Len(prog.subroutines) >= 2
    /\ Len(prog.subroutines[1].ops) > 0
    /\ \E m \in Positions(prog.subroutines[2].sourceMap) :
          prog.subroutines[2].sourceMap[m].bytecodePos > 0
    /\ \E m \in Positions(prog.sourceMap) : prog.sourceMap[m].bytecodePos > 0

\* the routines of prog up to the last one
EarlierRoutines == SubSeq(prog'.subroutines, 1, Len(prog.subroutines))

\* C8: subroutines[i].index is i (0-based) in every state, and a call that
\* creates a routine appends exactly that routine, with index = len - 1 and
\* with no opcode in it yet, and leaves the routines before it as they are
C8_IndexIsPosition ==
    /\ [](\A i \in Routines : prog.subroutines[i].index = i - 1)
    /\ [][Len(prog'.subroutines) # Len(prog.subroutines) =>
            /\ Len(prog'.subroutines) = Len(prog.subroutines) + 1
            /\ EarlierRoutines = prog.subroutines
            /\ Last(prog'.subroutines).index = Len(prog'.subroutines) - 1
            /\ Last(prog'.subroutines).ops = <<>>]_vars

\* C8 witness: three routines, a nameless one among them, the first of which
\* has received its body
C8_Witness ==
    /\ Len(prog.subroutines) >= 3
    /\ \E i \in Routines : prog.subroutines[i].type = "Inline"
    /\ Len(prog.subroutines[1].ops) > 0

\* the frames from frame f to the root, f first
RECURSIVE FrameChain(_)
FrameChain(f) == IF f = 0 THEN <<>> ELSE <<f>> \o FrameChain(prog.frames[f].previous)

\* the positions in frame f of the symbols called name
Named(f, name) ==
    {k \in Positions(prog.frames[f].symbols) : prog.frames[f].symbols[k].name = name}

Least(S) == CHOOSE x \in S : \A y \in S : x <= y

Greatest(S) == CHOOSE x \in S : \A y \in S : x >= y

\* what a reference to name must emit at this emission site when name resolves
\* to a type argument or type variable: Loads, the number of hops to the
\* nearest frame of the chain that holds name, the position in that frame of
\* its latest symbol called name
LoadsOf(name) ==
    LET chain == FrameChain(prog.frame)
        holders == {h \in Positions(chain) : Named(chain[h], name) # {}}
        hops == Least(holders) - 1
        position == Greatest(Named(chain[hops + 1], name)) - 1
    IN <<Op("Loads"), Byte(hops % 256), Byte(hops \div 256),
         Byte(position % 256), Byte(position \div 256)>>

\* name resolves, from the current frame, to a type argument or type variable
ResolvesToLoads(name) ==
    LET chain == FrameChain(prog.frame)
        holders == {h \in Positions(chain) : Named(chain[h], name) # {}}
    IN /\ holders # {}
       /\ LET f == chain[Least(holders)]
          IN prog.frames[f].symbols[Greatest(Named(f, name))].type
                \in {"TypeArgument", "TypeVariable"}

\* C9: at every emission site, lowering a reference that resolves to a type
\* argument or type variable appends Loads with frame offset = hops and symbol
\* index = position; lowering the statement `type I<T> = T;` wherever a
\* statement can stand gives the routine TypeArgument, Loads(0, 0), Return
C9_LoadsAddressesTheSymbol ==
    /\ ~Thrown(prog) =>
          \A name \in {nT, nU} :
              ResolvesToLoads(name) =>
                  getOPs(handle(TypeRef(name, 0), prog, {})) = getOPs(prog) \o LoadsOf(name)
    /\ (~Thrown(prog) /\ ~HasActive(prog)) =>
          \A u \in UninitRoot :
              LET p == handle(IdAlias, prog, u)
              IN /\ ~Thrown(p)
                 /\ Len(p.subroutines) = Len(prog.subroutines) + 1
                 /\ Last(p.subroutines).identifier = nI
                 /\ Last(p.subroutines).ops =
                       <<Op("TypeArgument"), Op("Loads"), Byte(0), Byte(0), Byte(0),
                         Byte(0), Op("Return")>>

\* C9 witness: a Loads with frame offset 1 and symbol index 1 has been emitted
C9_Witness ==
    \E q \in Positions(getOPs(prog)) :
        /\ q + 4 <= Len(getOPs(prog))
        /\ SubSeq(getOPs(prog), q, q + 4)
              = <<Op("Loads"), Byte(1), Byte(0), Byte(1), Byte(0)>>

\* the kinds of symbol that own a routine
RoutineKinds == {"Variable", "Function", "Class", "Type"}

\* C10 (as claimed): a symbol has a routine attached if and only if its kind
\* is Variable, Function, Class or Type
C10_RoutineOwnedIffKind ==
    \A f \in Positions(prog.frames) :
        \A k \in Positions(prog.frames[f].symbols) :
            (prog.frames[f].symbols[k].routine # 0)
                <=> (prog.frames[f].symbols[k].type \in RoutineKinds)

\* the kinds of symbol requested in the C11 formula
RequestedKinds == {"TypeArgument", "TypeVariable", "Type"}

\* C11: pushSymbol(name, kind) on the current frame: when kind is not
\* TypeVariable and the frame holds a symbol called name, one such symbol has
\* its declarations raised by exactly 1, nothing is added and that symbol is
\* returned; otherwise (every TypeVariable request included) one symbol with
\* declarations 1 is appended whose index is the number of symbols the frame
\* held before. Every symbol's index is its position in its frame.
C11_PushSymbolCountsOrAppends ==
    /\ \A f \in Positions(prog.frames) :
           \A k \in Positions(prog.frames[f].symbols) :
               prog.frames[f].symbols[k].index = k - 1
    /\ ~Thrown(prog) =>
          \A name \in {nA, nT, nU}, type \in RequestedKinds :
              LET r == pushSymbol(prog, name, type, 0, 1)
                  f == prog.frame
                  before == prog.frames[f].symbols
                  after == r.p.frames[f].symbols
              IN /\ \A g \in Positions(prog.frames) :
                        g # f => r.p.frames[g] = prog.frames[g]
                 /\ Len(r.p.frames) = Len(prog.frames)
                 /\ IF type # "TypeVariable" /\ Named(f, name) # {}
                    THEN /\ Len(after) = Len(before)
                         /\ r.ref[1] = f
                         /\ r.ref[2] \in Named(f, name)
                         /\ after[r.ref[2]]
                               = [before[r.ref[2]] EXCEPT !.declarations = @ + 1]
                         /\ \A k \in Positions(before) :
                                k # r.ref[2] => after[k] = before[k]
                    ELSE /\ Len(after) = Len(before) + 1
                         /\ SubSeq(after, 1, Len(before)) = before
                         /\ r.ref = <<f, Len(before) + 1>>
                         /\ Last(after).declarations = 1
                         /\ Last(after).index = Len(before)
                         /\ Last(after).name = name
                         /\ Last(after).type = type

\* C11 witness: pushSymbol has counted a second declaration on one symbol and
\* has appended a second symbol of the same name for a TypeVariable request
C11_Witness ==
    \E f \in Positions(prog.frames) :
        \E j, k \in Positions(prog.frames[f].symbols) :
            /\ j < k
            /\ prog.frames[f].symbols[j].name = prog.frames[f].symbols[k].name
            /\ prog.frames[f].symbols[j].declarations = 2
            /\ prog.frames[f].symbols[k].type = "TypeVariable"

\* the places, counted from 1 at the current frame, of the frames of the
\* current frame's chain that hold a symbol called name
Holders(name) ==
    LET chain == FrameChain(prog.frame)
    IN {h \in Positions(chain) : Named(chain[h], name) # {}}

\* C12: findSymbol(name) returns, of the frames on the chain from the current
\* frame to the root that hold a symbol called name, the nearest one's most
\* recently inserted symbol of that name; it returns no symbol exactly when no
\* frame of the chain holds the name.
C12_FindSymbolNearestLatest ==
    \A name \in {nA, nT, nU} :
        LET chain == FrameChain(prog.frame)
        IN IF Holders(name) = {}
           THEN findSymbol(prog, name) = <<0, 0>>
           ELSE LET f == chain[Least(Holders(name))]
                IN findSymbol(prog, name) = <<f, Greatest(Named(f, name))>>

\* C12 witness: a reference has been resolved one frame up the chain, where two
\* symbols carry its name, and to the later of the two
C12_Witness ==
    \E name \in {nT, nU} :
        /\ Holders(name) # {}
        /\ Least(Holders(name)) = 2
        /\ Named(FrameChain(prog.frame)[2], name) = {1, 2}
        /\ Len(getOPs(prog)) = 5
        /\ getOPs(prog) = <<Op("Loads"), Byte(1), Byte(0), Byte(1), Byte(0)>>

\* the routines of the symbols called name in the frames of the current
\* frame's chain, 0 for a symbol that owns none
RoutinesOf(name) ==
    LET chain == FrameChain(prog.frame)
    IN UNION {{prog.frames[chain[h]].symbols[k].routine : k \in Named(chain[h], name)} :
                 h \in Holders(name)}

\* C13 (as claimed): pushSubroutine(name) raises the fatal error only when no
\* frame of the current frame's chain holds a symbol called name; whenever
\* the current frame or an enclosing frame holds one (here: each such symbol
\* owning a routine) it pushes a frame onto the current frame without emitting
\* an opcode and makes the subroutine of a symbol of that name the emission
\* target.
C13_PushSubroutineSearchesChain ==
    ~Thrown(prog) =>
        \A name \in {nA, nT, nU} :
            LET p == pushSubroutine(prog, name)
            IN IF Holders(name) = {}
               THEN Thrown(p)
               ELSE (0 \notin RoutinesOf(name)) =>
                       /\ ~Thrown(p)
                       /\ p.frame # prog.frame
                       /\ p.frames[p.frame].previous = prog.frame
                       /\ p.ops = prog.ops
                       /\ p.subroutines = prog.subroutines
                       /\ Front(p.activeSubroutines) = prog.activeSubroutines
                       /\ Last(p.activeSubroutines) \in RoutinesOf(name)

\* the three references to name: the type reference `name`, the identifier
\* `name`, and the assignment `name = "hi"`
References(name) ==
    { TypeRef(name, 0),
      Ident(name, 0),
      Node("BinaryExpression", 0, 9, None, 2, 3, <<>>,
           <<Ident(name, 0), StringLiteralNode(<<104, 105>>, 4)>>, <<>>, <<>>,
           {"EqualsToken"}) }

\* C14 (as claimed): lowering a reference to a name that no frame of the chain
\* holds does not abort, and appends to the current emission target (the
\* active subroutine's buffer, else the main buffer) Never immediately
\* followed by Error with the code CannotFind.
C14_NeverThenErrorInTarget ==
    ~Thrown(prog) =>
        \A name \in {nA, nT, nU} :
            Holders(name) = {} =>
                \A n \in References(name) :
                    LET p == handle(n, prog, {})
                    IN /\ ~Thrown(p)
                       /\ getOPs(p) = getOPs(prog) \o
                              <<Op("Never"), Op("Error"), ErrorCodeByte(CannotFind), Byte(0)>>

\* C15 (as claimed): popSubroutine raises the fatal error when no subroutine is
\* active and when the active subroutine holds no opcode, and a popSubroutine
\* that fails appends no Return and leaves the current frame, the stack of
\* active subroutines and every buffer as they were before the call.
C15_FailingPopSubroutineChangesNothing ==
    ~Thrown(prog) =>
        LET p == popSubroutine(prog)
        IN /\ ~HasActive(prog) => Thrown(p)
           /\ (HasActive(prog) /\ Len(getOPs(prog)) = 0) => Thrown(p)
           /\ Thrown(p) => /\ p.frame = prog.frame
                           /\ p.activeSubroutines = prog.activeSubroutines
                           /\ p.ops = prog.ops
                           /\ p.subroutines = prog.subroutines

\* the type argument usages of the active section of program p's active subroutine
ActiveUsages(p) ==
    LET s == p.subroutines[Active(p)]
    IN s.sections[s.activeSection + 1].typeArgumentUsages

\* the kind of the symbol a reference to name resolves to, "" when it resolves
\* to none
ResolvedKind(name) ==
    IF Holders(name) = {} THEN ""
    ELSE SymbolAt(prog, findSymbol(prog, name)).type

\* C16 (as claimed): while a subroutine is active, lowering a reference that
\* resolves to a TypeArgument symbol, by the TypeReference case or by the
\* Identifier case, records a type argument usage in the active section of
\* that subroutine; a reference that resolves to a TypeVariable records none.
C16_TypeArgumentUsageRecorded ==
    (~Thrown(prog) /\ HasActive(prog)) =>
        \A name \in {nA, nT, nU} :
            \A n \in {TypeRef(name, 0), Ident(name, 0)} :
                LET p == handle(n, prog, {})
                IN /\ ResolvedKind(name) = "TypeArgument" =>
                          /\ ~Thrown(p)
                          /\ ActiveUsages(p) # ActiveUsages(prog)
                          /\ \E i \in Positions(ActiveUsages(p)) :
                                 ActiveUsages(p)[i].ip = ip(p)
                   /\ ResolvedKind(name) = "TypeVariable" =>
                          /\ ~Thrown(p)
                          /\ ActiveUsages(p) = ActiveUsages(prog)

\* C16 restricted to the TypeReference case
C16_TypeReferenceCaseOnly ==
    (~Thrown(prog) /\ HasActive(prog)) =>
        \A name \in {nA, nT, nU} :
            LET p == handle(TypeRef(name, 0), prog, {})
            IN /\ ResolvedKind(name) = "TypeArgument" =>
                      ActiveUsages(p) # ActiveUsages(prog)
               /\ ResolvedKind(name) = "TypeVariable" =>
                      ActiveUsages(p) = ActiveUsages(prog)

\* the signed value of the 4 little-endian bytes at code index i of buffer b
readInt32(b, i) ==
    IF b[i + 4].v >= 128
    THEN readUint(b, i, 3) + (b[i + 4].v - 256) * 16777216
    ELSE readUint(b, i, 4)

\* the code indices of the JumpCondition opcodes of routine r
JumpConditions(r) ==
    {q - 1 : q \in {k \in Positions(prog.subroutines[r].ops) :
                        prog.subroutines[r].ops[k] = Op("JumpCondition")}}

\* the code index of the first byte of the false branch of the conditional
\* type whose JumpCondition is at code index jc of routine r: the byte after
\* the 4 parameter bytes of the Jump that closes the true branch (no true
\* branch of the inputs holds a conditional type of its own)
FalseBranch(r, jc) ==
    LET ops == prog.subroutines[r].ops
    IN Least({q - 1 : q \in {k \in Positions(ops) : k - 1 > jc + 4 /\ ops[k] = Op("Jump")}})
       + 5

\* the routines whose conditional types C17 is about: closed, and without a
\* Distribute
NonDistributive(r) ==
    /\ Optimised(r)
    /\ ~HasOp(prog.subroutines[r].ops, "Distribute")

\* C17 (as claimed): in a conditional type lowered without Distribute the i32
\* after JumpCondition is the distance from the byte after its 4 parameter
\* bytes to the first byte of the false branch (the true branch's length + 5).
C17_JumpConditionFromParametersEnd ==
    \A r \in Routines :
        NonDistributive(r) =>
            \A jc \in JumpConditions(r) :
                readInt32(prog.subroutines[r].ops, jc + 1) = FalseBranch(r, jc) - (jc + 5)

\* C17 (amended): in a conditional type lowered without Distribute the i32
\* after JumpCondition is the distance from the JumpCondition opcode itself to
\* the first byte of the false branch (the true branch's length + 10).
C17_JumpConditionFromOpcode ==
    \A r \in Routines :
        NonDistributive(r) =>
            \A jc \in JumpConditions(r) :
                readInt32(prog.subroutines[r].ops, jc + 1) = FalseBranch(r, jc) - jc

\* C17 witness: `type T = [number] extends [string] ? 1 : 2;` is compiled:
\* Frame, Frame Number TupleMember Tuple, Frame String TupleMember Tuple,
\* Extends, JumpCondition at code index 10, the literal 1 at 15, Jump at 20,
\* the literal 2 at 25
C17_Witness ==
    \E r \in Routines :
        LET ops == prog.subroutines[r].ops
        IN /\ NonDistributive(r)
           /\ Len(ops) >= 30
           /\ ops[5] = Op("Tuple")
           /\ ops[11] = Op("JumpCondition")
           /\ ops[16] = Op("NumberLiteral")
           /\ ops[21] = Op("Jump")
           /\ ops[26] = Op("NumberLiteral")
           /\ FalseBranch(r, 10) = 25

\* the opcodes and parameter bytes of a routine that is exactly the given
\* opcodes
OpsOf(names) == [q \in Positions(names) |-> Op(names[q])]

\* the source file is the single statement n
OnlyStatement(n) ==
    /\ nstmt = 1
    /\ \E u \in UninitPatterns : prog = handle(n, NewProgram, u)

\* C18 (as claimed): for `type T = string | number;` the subroutines table has
\* exactly one entry, named T, and its opcodes are exactly Frame, String,
\* Number, Union, FrameEnd, Return.
C18_UnionRoutineWithFrameEnd ==
    OnlyStatement(UnionAlias) =>
        /\ Len(prog.subroutines) = 1
        /\ prog.subroutines[1].identifier = nT
        /\ prog.subroutines[1].ops
              = OpsOf(<<"Frame", "String", "Number", "Union", "FrameEnd", "Return">>)

\* C18 (amended): for `type T = string | number;` the subroutines table has
\* exactly one entry, named T, and its opcodes are exactly Frame, String,
\* Number, Union, Return: the frame of a union is closed by Union itself.
C18_UnionRoutine ==
    OnlyStatement(UnionAlias) =>
        /\ Len(prog.subroutines) = 1
        /\ prog.subroutines[1].identifier = nT
        /\ prog.subroutines[1].ops
              = OpsOf(<<"Frame", "String", "Number", "Union", "Return">>)
        /\ prog.ops = <<>>
        /\ prog.frame = 1

\* C18 witness: `type T = string | number;` has been compiled as the only
\* statement of the file
C18_Witness ==
    /\ OnlyStatement(UnionAlias)
    /\ HasOp(prog.subroutines[1].ops, "Union")

\* the buffers of the program: the main buffer and the buffer of every routine
Buffers == {prog.ops} \cup {prog.subroutines[r].ops : r \in Routines}

\* an interface declaration has been lowered: only it emits ObjectLiteral
InterfaceLowered == \E b \in Buffers : HasOp(b, "ObjectLiteral")

\* C19 (as claimed): an interface declaration is registered as a named symbol
\* that owns its own subroutine, its opcodes go into that subroutine and not
\* into the main buffer, and a later type reference to its name is lowered to
\* a Call, not to Never and Error.
C19_InterfaceOwnsSubroutine ==
    InterfaceLowered =>
        /\ ~HasOp(prog.ops, "ObjectLiteral")
        /\ \E f \in Positions(prog.frames) :
               \E k \in Named(f, nI) :
                   LET routine == prog.frames[f].symbols[k].routine
                   IN /\ routine # 0
                      /\ HasOp(prog.subroutines[routine].ops, "ObjectLiteral")
        /\ ~Thrown(prog) =>
               LET p == handle(TypeRef(nI, 0), prog, {})
               IN /\ ~Thrown(p)
                  /\ Len(getOPs(p)) > Len(getOPs(prog))
                  /\ getOPs(p)[Len(getOPs(prog)) + 1] = Op("Call")

\* the check types of the C20 formula: `A`, `T`, `U`, `A<T>`, `string`, `[T]`
CheckTypes ==
    { TypeRef(nA, 0), TypeRef(nT, 0), TypeRef(nU, 0),
      TypeRefArgs(nA, <<TypeRef(nT, 2)>>, 0, 4),
      Keyword("StringKeyword", 0),
      TupleOf(<<TypeRef(nT, 1)>>, 0, 3) }

\* check is a bare identifier that resolves to a type parameter: a
\* TypeArgument symbol, or the TypeVariable that stands for one inside a
\* Distribute
BareTypeParameter(check) ==
    /\ check.kind = "TypeReference"
    /\ "typeArguments" \notin check.flags
    /\ ResolvedKind(check.text) \in {"TypeArgument", "TypeVariable"}

\* C20 (as claimed): a conditional type is lowered with Distribute if and only
\* if its check type is a bare identifier that refers to a type parameter; a
\* reference with type arguments, a reference to an alias or to another
\* symbol that is no type parameter, and an unknown name are lowered without
\* Distribute.
C20_DistributiveIffTypeParameter ==
    ~Thrown(prog) =>
        \A check \in CheckTypes :
            LET n == Conditional(check, Keyword("StringKeyword", 14),
                                 Keyword("NumberKeyword", 23), Keyword("NeverKeyword", 32),
                                 0, 37)
                p == handle(n, prog, {})
                emitted == SubSeq(getOPs(p), Len(getOPs(prog)) + 1, Len(getOPs(p)))
            IN ~Thrown(p) => (HasOp(emitted, "Distribute") <=> BareTypeParameter(check))

\* C20 restricted to one direction: a check type that is a bare identifier
\* referring to a type parameter is lowered with Distribute, and a check type
\* that is no type reference is lowered without
C20_TypeParameterIsDistributed ==
    ~Thrown(prog) =>
        \A check \in CheckTypes :
            LET n == Conditional(check, Keyword("StringKeyword", 14),
                                 Keyword("NumberKeyword", 23), Keyword("NeverKeyword", 32),
                                 0, 37)
                p == handle(n, prog, {})
                emitted == SubSeq(getOPs(p), Len(getOPs(prog)) + 1, Len(getOPs(p)))
            IN ~Thrown(p) =>
                  /\ BareTypeParameter(check) => HasOp(emitted, "Distribute")
                  /\ check.kind # "TypeReference" => ~HasOp(emitted, "Distribute")

\* declarations of name: `type name = string;`, `type name<T> = T;`,
\* `function name<T>(x: T): A`, `function name(x)`, `var name: A;`,
\* `let name = "hi";`, `var name;`
DeclarationsOf(name) ==
    { Alias(name, Keyword("StringKeyword", 10)),
      AliasOf(name, <<TypeParam(nT, <<>>, 7)>>, TypeRef(nT, 10)),
      Node("FunctionDeclaration", 0, 30, name, 9, 10, <<TypeParam(nT, <<>>, 11)>>,
           <<Param(nX, <<TypeRef(nT, 17)>>, 14)>>, <<TypeRef(nA, 21)>>, <<>>,
           {"typeParameters"}),
      Node("FunctionDeclaration", 0, 20, name, 9, 10, <<>>,
           <<Param(nX, <<>>, 11)>>, <<>>, <<>>, {}),
      VarStatement(name, <<TypeRef(nA, 7)>>, <<>>, {}),
      VarStatement(name, <<>>, <<StringLiteralNode(<<104, 105>>, 8)>>, {}),
      VarStatement(name, <<>>, <<>>, {}) }

\* the positions in the current frame of the symbols called name that own a
\* routine
Owners(name) ==
    {k \in Named(prog.frame, name) : prog.frames[prog.frame].symbols[k].routine # 0}

\* C21: declaring again (as a type alias, a function or a variable) a name of
\* which the current frame holds a symbol that owns a routine appends no
\* subroutine, registers no storage, emits no opcode and no source-map entry
\* into any buffer and leaves every routine as it is; the one change is that
\* the declarations of that symbol grow by one.
C21_RedeclarationOnlyCounts ==
    ~Thrown(prog) =>
        \A name \in {nA, nB, nT} :
            Owners(name) # {} =>
                \A n \in DeclarationsOf(name), u \in UninitPatterns :
                    LET p == handle(n, prog, u)
                        f == prog.frame
                    IN /\ ~Thrown(p)
                       /\ p.subroutines = prog.subroutines
                       /\ p.storage = prog.storage
                       /\ p.storageIndex = prog.storageIndex
                       /\ p.ops = prog.ops
                       /\ p.sourceMap = prog.sourceMap
                       /\ p.frame = f
                       /\ p.activeSubroutines = prog.activeSubroutines
                       /\ \E k \in Owners(name) :
                              p.frames = [prog.frames EXCEPT
                                             ![f].symbols[k].declarations = @ + 1]

\* C21 witness: a name has been declared twice in one frame: its symbol owns
\* the only routine with that identifier and counts two declarations
C21_Witness ==
    \E f \in Positions(prog.frames) :
        \E k \in Positions(prog.frames[f].symbols) :
            LET symbol == prog.frames[f].symbols[k]
            IN /\ symbol.routine # 0
               /\ symbol.declarations = 2
               /\ Optimised(symbol.routine)
               /\ \A r \in Routines :
                      prog.subroutines[r].identifier = symbol.name => r = symbol.routine

\* the code indices in buffer b of the opcodes called name
IndicesOf(b, name) == {q - 1 : q \in {k \in Positions(b) : b[k] = Op(name)}}

\* the code index of the first opcode called name after code index i of b
NextOp(b, name, i) == Least({q \in IndicesOf(b, name) : q > i})

\* C22: in a closed routine every Distribute is followed by a FrameReturnJump
\* (its own: no conditional type of the inputs lies inside another); the i32
\* after FrameReturnJump is minus the distance between the two opcodes, so
\* relative to the FrameReturnJump opcode it targets the Distribute opcode,
\* and the u32 after Distribute, relative to the Distribute opcode, targets
\* the first byte after the 4 parameter bytes of FrameReturnJump.
C22_DistributeLoop ==
    \A r \in Routines :
        Optimised(r) =>
            LET ops == prog.subroutines[r].ops
            IN \A d \in IndicesOf(ops, "Distribute") :
                   /\ \E q \in IndicesOf(ops, "FrameReturnJump") : q > d
                   /\ LET j == NextOp(ops, "FrameReturnJump", d)
                      IN /\ j + 5 <= Len(ops)
                         /\ readInt32(ops, j + 1) = -(j - d)
                         /\ j + readInt32(ops, j + 1) = d
                         /\ d + readUint(ops, d + 1, 4) = j + 5

\* C22 witness: `type B<T> = T extends string ? T : never;` is compiled:
\* Distribute at code index 6 carries 34 and FrameReturnJump at 35 carries -29
C22_Witness ==
    \E r \in Routines :
        LET ops == prog.subroutines[r].ops
        IN /\ Optimised(r)
           /\ Len(ops) = 41
           /\ ops[7] = Op("Distribute")
           /\ readUint(ops, 7, 4) = 34
           /\ ops[36] = Op("FrameReturnJump")
           /\ readInt32(ops, 36) = -29

\* the code index of the first byte after the false branch of the conditional
\* type whose Jump is at code index j of buffer b: the FrameEnd or
\* FrameReturnJump that closes the conditional type (no false branch of the
\* inputs holds either)
FalseEnd(b, j) ==
    Least({q \in IndicesOf(b, "FrameEnd") \cup IndicesOf(b, "FrameReturnJump") : q > j + 4})

\* the values back-patched in the C23 formula
PatchedValues == {-29, 6, 300}

\* C23: for every conditional type of a closed routine the i32 after the Jump
\* that follows the true branch is the length of the false branch + 5, so
\* relative to the Jump opcode it lands on the first byte after the false
\* branch, a FrameEnd or a FrameReturnJump; and pushInt32Address at an offset
\* inside the buffer leaves the length and every byte outside the 4 bytes at
\* the offset as they are.
C23_JumpOverFalseBranch ==
    /\ \A r \in Routines :
           Optimised(r) =>
               LET ops == prog.subroutines[r].ops
               IN \A jc \in IndicesOf(ops, "JumpCondition") :
                      LET j == NextOp(ops, "Jump", jc + 4)
                          falseLength == FalseEnd(ops, j) - (j + 5)
                      IN /\ readInt32(ops, j + 1) = falseLength + 5
                         /\ j + readInt32(ops, j + 1) = FalseEnd(ops, j)
                         /\ falseLength >= 1
    /\ ~Thrown(prog) =>
           \A offset \in 1..(Len(getOPs(prog)) - 4), v \in PatchedValues :
               LET before == getOPs(prog)
                   after == getOPs(pushInt32Address(prog, v, offset))
               IN /\ Len(after) = Len(before)
                  /\ readInt32(after, offset) = v
                  /\ \A q \in Positions(before) :
                         (q <= offset \/ q > offset + 4) => after[q] = before[q]

\* C23 witness: `type T = [number] extends [string] ? 1 : 2;` is compiled, its
\* Jump at code index 20 carries 10 and FrameEnd is at 30; and the main buffer
\* holds bytes to patch
C23_Witness ==
    /\ \E r \in Routines :
           LET ops == prog.subroutines[r].ops
           IN /\ Optimised(r)
              /\ Len(ops) = 32
              /\ ops[21] = Op("Jump")
              /\ readInt32(ops, 21) = 10
              /\ ops[31] = Op("FrameEnd")
    /\ Len(prog.ops) > 4

\* C24: popSection on a subroutine whose current section has a parent records
\* the current ip as the end of the current section, and appends a section
\* that starts at the current ip, whose index becomes the parent's next, whose
\* up is the parent's up and which becomes the active section; nothing else
\* of the subroutine changes. The root section's up is -1 in every state.
C24_PopSectionAddsNextOfParent ==
    /\ \A r \in Routines : prog.subroutines[r].sections[1].up = -1
    /\ (~Thrown(prog) /\ HasActive(prog)) =>
           LET s == prog.subroutines[Active(prog)]
               c == s.activeSection
               parent == s.sections[c + 1].up
               n == Len(s.sections)
           IN (parent >= 0 /\ Back(s).up >= 0) =>
                  \A u \in UninitPatterns :
                      LET t == SubPopSection(s, u)
                      IN /\ t.sections[c + 1].end = SubIp(s)
                         /\ Len(t.sections) = n + 1
                         /\ t.sections[n + 1].start = SubIp(s)
                         /\ t.sections[parent + 1].next = n
                         /\ t.sections[n + 1].up = s.sections[parent + 1].up
                         /\ t.sections[n + 1].next = -1
                         /\ t.activeSection = n
                         /\ \A i \in SectionIds(s) :
                                t.sections[i + 1] =
                                    [s.sections[i + 1] EXCEPT
                                        !.end = IF i = c THEN SubIp(s) ELSE @,
                                        !.next = IF i = parent THEN n ELSE @]
                         /\ [t EXCEPT !.sections = <<>>, !.activeSection = 0]
                               = [s EXCEPT !.sections = <<>>, !.activeSection = 0]

\* C24 witness: an active subroutine on which a popSection has followed a
\* pushSection after an opcode: section 1 ends where section 2 starts, past
\* the start of the buffer, and is followed by section 2 as the root's next
C24_Witness ==
    /\ HasActive(prog)
    /\ LET s == prog.subroutines[Active(prog)]
       IN /\ Len(s.sections) >= 3
          /\ s.sections[1].next = 2
          /\ s.sections[2].up = 0
          /\ s.sections[3].up = -1
          /\ s.sections[2].end = s.sections[3].start
          /\ s.sections[3].start > s.sections[2].start

\* C25: pushOp(op) on a subroutine appends op, and sets the active section's
\* lastOp to op and raises its op count by one unless ignoreNextSectionOP was
\* requested since the previous pushOp, in which case lastOp and the op count
\* stay; after pushOp the flag is false, so that a second pushOp counts again.
C25_PushOpCountsUnlessIgnored ==
    (~Thrown(prog) /\ HasActive(prog)) =>
        \A op \in {"String", "Call", "Jump"} :
            LET s == prog.subroutines[Active(prog)]
                a == s.activeSection + 1
                t == SubPushOp(s, op)
                t2 == SubPushOp(t, op)
                counted == [s.sections EXCEPT ![a].lastOp = op, ![a].ops = @ + 1]
            IN /\ t.ops = Append(s.ops, Op(op))
               /\ ~t.isIgnoreNextSectionOP
               /\ t.sections = IF s.isIgnoreNextSectionOP THEN s.sections ELSE counted
               /\ t.activeSection = s.activeSection
               /\ t2.sections[a].lastOp = op
               /\ t2.sections[a].ops = t.sections[a].ops + 1
               /\ SubPushOp(SubIgnoreNextSectionOP(s), op).sections = s.sections

\* C25 witness: two opcodes are in the buffer of an active subroutine of which
\* one was pushed after ignoreNextSectionOP: its sections counted one op
C25_Witness ==
    /\ HasActive(prog)
    /\ LET s == prog.subroutines[Active(prog)]
       IN /\ Len(s.sections) = 1
          /\ s.ops = <<Op("Jump"), Op("String")>>
          /\ s.sections[1].ops = 1
          /\ s.sections[1].lastOp = "String"
          /\ ~s.isIgnoreNextSectionOP

\* C26 (as claimed): lowering a conditional type, distributive or not, leaves
\* the current frame as it was before; so after every top-level statement
\* the current frame is the root frame and no subroutine is active, and a
\* name resolves after the statement to what it resolved to in the root frame.
C26_FrameRestoredAfterStatement ==
    pc = "compiling" =>
        /\ prog.frame = 1
        /\ prog.activeSubroutines = <<>>
        /\ \A n \in {Conditional(Keyword("StringKeyword", 0), Keyword("NumberKeyword", 9),
                                 TypeRef(nA, 18), Keyword("NeverKeyword", 22), 0, 27),
                     Conditional(TypeRef(nT, 0), Keyword("StringKeyword", 10),
                                 TypeRef(nT, 19), Keyword("NeverKeyword", 23), 0, 28)} :
               LET p == handle(n, prog, {})
               IN ~Thrown(p) => p.frame = prog.frame

\* C27 (as claimed): when optimise() runs on a routine (its buffer is then the
\* closed routine's buffer without the final Return) every type argument
\* usage recorded in a tail section has an ip inside the buffer, and for a
\* tail section whose lastOp is Call, end - 7 is at least 0 and is where that
\* call is.
C27_OptimiseStaysInsideBuffer ==
    \A r \in Routines :
        Optimised(r) =>
            LET s == prog.subroutines[r]
                length == Len(s.ops) - 1
            IN \A i \in SectionIds(s) :
                   TailSection(s, i) =>
                       /\ \A k \in Positions(s.sections[i + 1].typeArgumentUsages) :
                              s.sections[i + 1].typeArgumentUsages[k].ip < length
                       /\ s.sections[i + 1].lastOp = "Call" =>
                              /\ s.sections[i + 1].end - 7 >= 0
                              /\ s.sections[i + 1].end - 7 < length
                              /\ s.ops[s.sections[i + 1].end - 7 + 1] = Op("TailCall")

\* C27 restricted to the tail call: for a tail section whose lastOp is Call,
\* end - 7 is inside the buffer and is where that call is
C27_TailCallInsideBuffer ==
    \A r \in Routines :
        Optimised(r) =>
            LET s == prog.subroutines[r]
            IN \A i \in SectionIds(s) :
                   (TailSection(s, i) /\ s.sections[i + 1].lastOp = "Call") =>
                       /\ s.sections[i + 1].end - 7 >= 0
                       /\ s.sections[i + 1].end - 7 < Len(s.ops) - 1
                       /\ s.ops[s.sections[i + 1].end - 7 + 1] = Op("TailCall")

\* the indices of the TypeArgument symbols of the program
TypeArgumentIndices ==
    UNION {{prog.frames[f].symbols[k].index :
                k \in {j \in Positions(prog.frames[f].symbols) :
                          prog.frames[f].symbols[j].type = "TypeArgument"}} :
              f \in Positions(prog.frames)}

\* C28 (as claimed): in every section of a closed routine there is at most
\* one usage entry per type argument, the symbolIndex of an entry is the index
\* of a type argument symbol (never an ip), and no Rest that is followed, in
\* its section, by a later Loads of the same type argument has become
\* RestReuse.
C28_RestReuseOnlyOnLastUse ==
    \A r \in Routines :
        Optimised(r) =>
            LET s == prog.subroutines[r]
            IN \A i \in SectionIds(s) :
                   LET section == s.sections[i + 1]
                       us == section.typeArgumentUsages
                   IN /\ \A j, k \in Positions(us) :
                             us[j].symbolIndex = us[k].symbolIndex => j = k
                      /\ \A k \in Positions(us) : us[k].symbolIndex \in TypeArgumentIndices
                      /\ \A q \in IndicesOf(s.ops, "RestReuse") :
                             (q >= section.start + 5 /\ q < section.end) =>
                                 ~\E q2 \in IndicesOf(s.ops, "Loads") :
                                     /\ q2 > q
                                     /\ q2 + 4 < section.end
                                     /\ SubSeq(s.ops, q2 + 2, q2 + 5)
                                           = SubSeq(s.ops, q - 3, q)

\* C29: when every popSection matches an earlier pushSection of its routine,
\* the active section of every routine is its newest section, so the section
\* whose end popSection records is the current one; the parent of the section
\* that a matched popSection would close has no next sibling yet; and every
\* leaf section has its end recorded before optimise() reads it: a leaf that
\* is no longer the newest ends where the section after it starts, and the
\* newest section of a closed routine ends where its Return is.
C29_ActiveSectionIsNewest ==
    \A r \in Routines :
        LET s == prog.subroutines[r]
            n == Len(s.sections)
        IN /\ s.activeSection = n - 1
           /\ Back(s).up >= 0 => s.sections[Back(s).up + 1].next = -1
           /\ \A i \in SectionIds(s) :
                  (i < n - 1 /\ ~s.sections[i + 1].hasChild) =>
                      /\ s.sections[i + 1].end = s.sections[i + 2].start
                      /\ s.sections[i + 1].end >= s.sections[i + 1].start
           /\ Optimised(r) =>
                  /\ ~Back(s).hasChild
                  /\ Back(s).end = Len(s.ops) - 1

\* C29: a routine in which two nested sections were pushed, the inner one
\* received an opcode, and both were closed by their matching popSection.
C29_Witness ==
    \E r \in Routines :
        LET s == prog.subroutines[r]
        IN /\ Len(s.sections) = 5
           /\ s.sections[2].up = 0
           /\ s.sections[3].up = 1
           /\ s.sections[4].up = 0
           /\ s.sections[5].up = -1
           /\ s.sections[2].hasChild
           /\ s.sections[3].end > s.sections[3].start
           /\ s.activeSection = 4

\* C30 (as claimed): the source-map entry that pushError records lies in the
\* source map of the buffer that receives the Error opcode, and its
\* bytecodePos is the position of that Error opcode, whatever the buffer
\* already holds.
C30_ErrorEntryAtErrorOpcode ==
    ~Thrown(prog) =>
        \A pos \in 0..1 :
            LET p == pushError(prog, CannotFind, pos, pos + 1)
                entry == Last(p.sourceMap)
            IN /\ Len(p.sourceMap) = Len(prog.sourceMap) + 1
               /\ p.subroutines = prog.subroutines
               /\ p.ops[Len(prog.ops) + 1] = Op("Error")
               /\ entry.sourcePos = pos
               /\ entry.bytecodePos = Len(prog.ops)

====
